---- MODULE Spec2Model ----
(***************************************************************************)
(* elevatr: tile resolution (utils.py), the caching tile fetcher           *)
(* (downloader.py), the raster operations (raster_operations.py) and the   *)
(* entry point get_elev_raster (get_elev_raster.py).                       *)
(*                                                                         *)
(* Coordinates are held in hundredths of a degree.  A tile fraction (the   *)
(* float x or y of _lonlat_to_tilenum) is held as a fixed-point value with *)
(* FracBits binary places: [neg, mag, exact] stands for the real v with    *)
(* sign neg and mag <= |v| * 2^FracBits < mag + 1, exact telling whether   *)
(* |v| * 2^FracBits = mag.  Multiplying by n_tiles = 2^zoom (zoom <=       *)
(* FracBits) and truncating is then computed without error.                *)
(*                                                                         *)
(* A string that the code builds from numbers (a URL, a file name) is a    *)
(* sequence of tokens, a number being the sequence of its decimal digits.  *)
(***************************************************************************)
EXTENDS Integers, Sequences, FiniteSets, TLC

VARIABLES
    pc,               \* position of the running call
    bbx,              \* argument bbx: <<xmin, ymin, xmax, ymax>>
    zoom,             \* argument zoom
    use_cache,        \* argument use_cache
    tiles_df,         \* tiles_df: the rows <<tile_x, tile_y>>, in order
    urls,             \* urls
    cached_files,     \* cached_files
    uncached_urls,    \* uncached_urls
    downloaded_tiles, \* downloaded_tiles
    idx,              \* position of the download loop in uncached_urls
    fs,               \* the file system: path -> state of the file there
    fs0,              \* the file system when the call started
    requested,        \* the URLs requested from the network by this call, in order
    written,          \* the paths this call opened for writing
    response,         \* what the network and the file gave the tile being downloaded
    result,           \* the value returned
    err,              \* the exception raised
    calls,            \* calls of _get_aws_terrain started so far
    stage,            \* position of the running call of get_elev_raster
    args,             \* its arguments and the settings it reads
    answer,           \* what the user typed at the prompt
    ops,              \* what the call did to the cache folder, the terminal and the rasters
    raster_list,      \* argument raster_list of _merge_rasters: the files, as datasets
    opened,           \* the datasets _merge_rasters opened
    data,             \* the array in hand (mosaic, then the clipped data)
    meta,             \* the metadata in hand
    raster            \* the Raster built from them

vars == <<pc, bbx, zoom, use_cache, tiles_df, urls, cached_files, uncached_urls,
          downloaded_tiles, idx, fs, fs0, requested, written, response, result, err,
          calls, stage, args, answer, ops, raster_list, opened, data, meta, raster>>

\* the state of get_elev_raster and of the raster operations
xvars == <<stage, args, answer, ops, raster_list, opened, data, meta, raster>>

----------------------------------------------------------------------------
(* Program constants *)

MIN_ZOOM == 0
MAX_ZOOM == 14
\* utils.py MAX_LONGITUDE = 180.0, in hundredths of a degree
MAX_LONGITUDE == 18000
\* get_elev_raster.py MAX_LATITUDE = 90, in hundredths of a degree
MAX_LATITUDE == 9000

(* Bounds of the model *)

\* _get_tile_xy is applied to the inputs whose tile set has at most MaxTiles tiles
MaxTiles == 16
\* _get_aws_terrain is called with zoom <= MaxFetchZoom, on at most
\* MaxFetchTiles tiles, at most MaxCalls times in a row on the same cache folder
MaxFetchZoom == 1
MaxFetchTiles == 2
MaxCalls == 2

FracBits == MAX_ZOOM

Abs(v) == IF v < 0 THEN -v ELSE v
Min(a, b) == IF a < b THEN a ELSE b
Max(a, b) == IF a > b THEN a ELSE b

----------------------------------------------------------------------------
(* utils.py: _lonlat_to_tilenum *)

\* x = (1 + lon_rad / pi) / 2 = (180 + lon_deg) / 360
XFrac(lon) ==
    LET num == Abs(MAX_LONGITUDE + lon) * 2^FracBits
        den == 2 * MAX_LONGITUDE
    IN  [neg |-> MAX_LONGITUDE + lon < 0, mag |-> num \div den, exact |-> num % den = 0]

\* y = (1 - asinh(tan(lat_rad)) / pi) / 2, tabulated from the float the code
\* computes at each latitude the model uses (tan(radians(90)) is finite)
YFrac(lat) ==
    CASE lat = -9000 -> [neg |-> FALSE, mag |-> 107345, exact |-> FALSE]
      [] lat = -8500 -> [neg |-> FALSE, mag |-> 16357, exact |-> FALSE]
      [] lat = 0 -> [neg |-> FALSE, mag |-> 8192, exact |-> TRUE]
      [] lat = 3770 -> [neg |-> FALSE, mag |-> 6337, exact |-> FALSE]
      [] lat = 3780 -> [neg |-> FALSE, mag |-> 6331, exact |-> FALSE]
      [] lat = 4133 -> [neg |-> FALSE, mag |-> 6122, exact |-> FALSE]
      [] lat = 5109 -> [neg |-> FALSE, mag |-> 5478, exact |-> FALSE]
      [] lat = 8500 -> [neg |-> FALSE, mag |-> 26, exact |-> FALSE]
      [] lat = 8900 -> [neg |-> TRUE, mag |-> 4171, exact |-> FALSE]
      [] lat = 9000 -> [neg |-> TRUE, mag |-> 90961, exact |-> FALSE]

\* a variant that rounds to the nearest integer, as round() would
IntRound(f, z) ==
    LET q == (((2 * f.mag) \div 2^(FracBits - z)) + 1) \div 2
    IN  IF f.neg THEN -q ELSE q

\* int(frac * n_tiles): Python's int() truncates toward zero
IntTrunc(f, z) ==
    LET q == f.mag \div 2^(FracBits - z)
    IN  IF f.neg THEN -q ELSE q

\* variants that clamp on one side only
ClampUpperOnly(v, n_tiles) == Min(n_tiles - 1, v)

ClampLowerOnly(v, n_tiles) == Max(0, v)

\* max(0, min(n_tiles - 1, v))
Clamp(v, n_tiles) == Max(0, Min(n_tiles - 1, v))

_lonlat_to_tilenum(lon_deg, lat_deg, z) ==
    LET n_tiles == 2^z
        xtile == Clamp(IntTrunc(XFrac(lon_deg), z), n_tiles)
        ytile == Clamp(IntTrunc(YFrac(lat_deg), z), n_tiles)
    IN  <<xtile, ytile>>

----------------------------------------------------------------------------
(* utils.py: _get_tile_xy *)

\* sorted([xmin, xmax]), sorted([ymin, ymax]), then the wrap of longitudes > 180
NormalizeBbx(b) ==
    LET sxmin == Min(b[1], b[3])
        sxmax == Max(b[1], b[3])
        symin == Min(b[2], b[4])
        symax == Max(b[2], b[4])
        xmin == IF sxmin > MAX_LONGITUDE THEN sxmin - 2 * MAX_LONGITUDE ELSE sxmin
        xmax == IF sxmax > MAX_LONGITUDE THEN sxmax - 2 * MAX_LONGITUDE ELSE sxmax
    IN  <<xmin, symin, xmax, symax>>

\* np.arange(lo, hi): lo, lo + 1, ..., hi - 1; empty when hi <= lo
Arange(lo, hi) == [i \in 1..Max(0, hi - lo) |-> lo + i - 1]

\* np.array(np.meshgrid(x_tiles, y_tiles)).T.reshape(-1, 2): x outer, y inner
MeshGrid(x_tiles, y_tiles) ==
    LET nx == Len(x_tiles)
        ny == Len(y_tiles)
    IN  [k \in 1..(nx * ny) |->
            <<x_tiles[((k - 1) \div ny) + 1], y_tiles[((k - 1) % ny) + 1]>>]

\* the tile indices of the two corners: <<xmin, xmax, ymin, ymax>> before the swap
CornerTiles(b, z) ==
    LET nb == NormalizeBbx(b)
        min_tile == _lonlat_to_tilenum(nb[1], nb[2], z)
        max_tile == _lonlat_to_tilenum(nb[3], nb[4], z)
    IN  <<min_tile[1], max_tile[1], min_tile[2], max_tile[2]>>

\* a variant without the swap
YRangeNoSwap(ymin, ymax) == <<ymin, ymax>>

\* if ymin > ymax: ymin, ymax = ymax, ymin
YRange(ymin, ymax) == IF ymin > ymax THEN <<ymax, ymin>> ELSE <<ymin, ymax>>

\* the filter of zoom levels 1 and 0
ZoomFilter(ts, z) ==
    IF z = 1 THEN SelectSeq(ts, LAMBDA t : t[1] < 2 /\ t[2] < 2)
    ELSE IF z = 0 THEN SelectSeq(ts, LAMBDA t : t[1] < 1 /\ t[2] < 1)
    ELSE ts

_get_tile_xy(b, z) ==
    LET c == CornerTiles(b, z)
        yr == YRange(c[3], c[4])
        x_tiles == Arange(c[1], c[2] + 1)
        y_tiles == Arange(yr[1], yr[2] + 1)
    IN  ZoomFilter(MeshGrid(x_tiles, y_tiles), z)

\* the number of rows of the grid _get_tile_xy builds
GridSize(b, z) ==
    LET c == CornerTiles(b, z)
        yr == YRange(c[3], c[4])
    IN  Max(0, c[2] + 1 - c[1]) * Max(0, yr[2] + 1 - yr[1])

----------------------------------------------------------------------------
(* downloader.py: URLs and cache file names *)

DigitTokens == <<"0", "1", "2", "3", "4", "5", "6", "7", "8", "9">>

\* the decimal rendering of a number >= 0 in an f-string
RECURSIVE Digits(_)
Digits(n) ==
    IF n < 10 THEN <<DigitTokens[n + 1]>>
    ELSE Digits(n \div 10) \o <<DigitTokens[(n % 10) + 1]>>

\* BASE_URL split at "/": scheme, the empty segment of "//", host, path segments
BASE_URL == << <<"https:">>, <<>>, <<"s3.amazonaws.com">>,
               <<"elevation-tiles-prod">>, <<"geotiff">> >>

\* settings.cache_folder, the folder get_elev_raster passes by default
cache_folder == "./cache"

\* f"{BASE_URL}/{zoom}/{tile.tile_x}/{tile.tile_y}.tif"
TileUrl(z, tile) ==
    BASE_URL \o << Digits(z), Digits(tile[1]), Digits(tile[2]) \o <<".tif">> >>

\* urlparse(url).path.split("/"): the segments after the host, behind an empty one
PathSegments(url) == << <<>> >> \o SubSeq(url, 4, Len(url))

\* Path(url).name
UrlName(url) == url[Len(url)]

\* a variant that leaves the zoom level out of the name
construct_tile_filename_no_zoom(url) ==
    LET path_segments == PathSegments(url)
        n == Len(path_segments)
        filename == path_segments[n - 3] \o <<"_">> \o path_segments[n - 1] \o <<"_">>
                    \o UrlName(url)
    IN  <<cache_folder, "/">> \o filename

\* f"{path_segments[-4]}_{path_segments[-3]}_{path_segments[-2]}_{Path(url).name}"
\* under cache_folder
_construct_tile_filename(url) ==
    LET path_segments == PathSegments(url)
        n == Len(path_segments)
        filename == path_segments[n - 3] \o <<"_">> \o path_segments[n - 2] \o <<"_">>
                    \o path_segments[n - 1] \o <<"_">> \o UrlName(url)
    IN  <<cache_folder, "/">> \o filename

\* a variant that never finds the file
ExistsNever(files, filepath) == FALSE

\* Path(filepath).exists()
Exists(files, filepath) == filepath \in DOMAIN files

\* the cache folder as a path of the file system
Folder == <<cache_folder>>

\* Path(folder).mkdir(parents=True, exist_ok=True)
Mkdir(files, folder) == IF Exists(files, folder) THEN files ELSE (folder :> "dir") @@ files

\* a variant that empties the folder and leaves it
RmtreeFilesOnly(files, folder) ==
    [f \in {g \in DOMAIN files : g = folder} |-> files[f]]

\* shutil.rmtree(folder): the folder and everything under it (every path of
\* the model lies under the cache folder)
Rmtree(files, folder) ==
    [f \in {g \in DOMAIN files : g[1] # folder[1]} |-> files[f]]

\* a variant that forgets the cached paths
FilterDropCached(us, files, uc) ==
    LET hit(u) == Exists(files, _construct_tile_filename(u)) /\ uc
    IN  <<<<>>, SelectSeq(us, LAMBDA u : ~hit(u))>>

\* _filter_cached_and_uncached: <<cached, uncached>>, each in the order of urls
_filter_cached_and_uncached(us, files, uc) ==
    LET hit(u) == Exists(files, _construct_tile_filename(u)) /\ uc
        CachedUrls == SelectSeq(us, hit)
        cached == [i \in 1..Len(CachedUrls) |-> _construct_tile_filename(CachedUrls[i])]
        uncached == SelectSeq(us, LAMBDA u : ~hit(u))
    IN  <<cached, uncached>>

----------------------------------------------------------------------------
(* Inputs *)

LonSamples == {-18001, -18000, -514, 0, 956, 17000, 18000, 19000, 55000}
LatSamples == {-9000, -8500, 0, 4133, 5109, 8500, 9000}
TileBoxes == {<<x1, y1, x2, y2>> : x1 \in LonSamples, x2 \in LonSamples,
                                   y1 \in LatSamples, y2 \in LatSamples}

\* the docstring's box, the test suite's box, a box east of Greenwich, a box across
\* the antimeridian
FetchBoxes == {<<-514, 4133, 956, 5109>>, <<-12310, 3770, -12290, 3780>>,
               <<956, 4133, 17000, 5109>>, <<17000, 0, 19000, 4133>>}

NoBox == <<0, 0, 0, 0>>
NoError == [type |-> "none", url |-> <<>>]
NoArray == [count |-> 0, h |-> 0, w |-> 0, dtype |-> "none", px |-> <<>>]
\* an affine transform (a, b, c, d, e, f) of a north-up grid: a the width of a
\* pixel, c the west edge, e minus the height of a pixel, f the north edge
NoTransform == [a |-> 0, west |-> 0, e |-> 0, north |-> 0]
NoMeta == [driver |-> "none", dtype |-> "none", nodata |-> 0, width |-> 0, height |-> 0,
           count |-> 0, crs |-> "none", transform |-> NoTransform,
           imagery_sources |-> <<>>]
NoRaster == [data |-> NoArray, meta |-> NoMeta, crs |-> "none", height |-> 0, width |-> 0,
             dtype |-> "none", nodata |-> 0, bounds |-> <<0, 0, 0, 0>>,
             resolution |-> [x |-> 0, y |-> 0, unit |-> "unknown"],
             imagery_sources |-> <<>>,
             transform |-> NoTransform]
NoValue == [type |-> "none", val |-> 0]
NoArgs == [locations |-> [type |-> "none", elems |-> <<>>, val |-> <<>>],
           zoom |-> NoValue, crs |-> "none", clip |-> "none", cache_folder |-> NoValue,
           use_cache |-> NoValue, delete_cache |-> NoValue, verbose |-> NoValue,
           ask_confirmation |-> FALSE, min_size_for_confirmation |-> 0]

----------------------------------------------------------------------------
(* Direct calls of the pure functions of utils.py *)

TileInit ==
    /\ pc = "tile_start"
    /\ bbx \in TileBoxes
    /\ zoom \in MIN_ZOOM..MAX_ZOOM
    /\ use_cache = FALSE
    /\ tiles_df = <<>>
    /\ urls = <<>>
    /\ cached_files = <<>>
    /\ uncached_urls = <<>>
    /\ downloaded_tiles = <<>>
    /\ idx = 0
    /\ fs = <<>>
    /\ fs0 = <<>>
    /\ requested = <<>>
    /\ written = {}
    /\ response = "none"
    /\ result = <<>>
    /\ err = NoError
    /\ calls = 0
    /\ stage = "none"
    /\ args = NoArgs
    /\ answer = ""
    /\ ops = <<>>
    /\ raster_list = <<>>
    /\ opened = <<>>
    /\ data = NoArray
    /\ meta = NoMeta
    /\ raster = NoRaster

\* _lonlat_to_tilenum(lon, lat, zoom) on the first corner as given
ConvertPoint ==
    /\ pc = "tile_start"
    /\ tiles_df' = <<_lonlat_to_tilenum(bbx[1], bbx[2], zoom)>>
    /\ pc' = "point_done"
    /\ UNCHANGED <<bbx, zoom, use_cache, urls, cached_files, uncached_urls,
                   downloaded_tiles, idx, fs, fs0, requested, written, response,
                   result, err, calls>>
    /\ UNCHANGED xvars

\* _get_tile_xy(bbx, zoom)
ResolveTiles ==
    /\ pc = "tile_start"
    /\ GridSize(bbx, zoom) <= MaxTiles
    /\ tiles_df' = _get_tile_xy(bbx, zoom)
    /\ pc' = "tile_done"
    /\ UNCHANGED <<bbx, zoom, use_cache, urls, cached_files, uncached_urls,
                   downloaded_tiles, idx, fs, fs0, requested, written, response,
                   result, err, calls>>
    /\ UNCHANGED xvars

TileNext == ConvertPoint \/ ResolveTiles

SpecTile == TileInit /\ [][TileNext]_vars

----------------------------------------------------------------------------
(* downloader.py: _get_aws_terrain, one tile at a time *)

Init ==
    /\ pc = "idle"
    /\ bbx = NoBox
    /\ zoom = 0
    /\ use_cache = FALSE
    /\ tiles_df = <<>>
    /\ urls = <<>>
    /\ cached_files = <<>>
    /\ uncached_urls = <<>>
    /\ downloaded_tiles = <<>>
    /\ idx = 0
    /\ fs = <<>>
    /\ fs0 = <<>>
    /\ requested = <<>>
    /\ written = {}
    /\ response = "none"
    /\ result = <<>>
    /\ err = NoError
    /\ calls = 0
    /\ stage = "none"
    /\ args = NoArgs
    /\ answer = ""
    /\ ops = <<>>
    /\ raster_list = <<>>
    /\ opened = <<>>
    /\ data = NoArray
    /\ meta = NoMeta
    /\ raster = NoRaster

\* lines 125-138: the tiles, their URLs, the cache split, the early return
Invoke(b, z, uc) ==
    /\ pc = "idle"
    /\ calls < MaxCalls
    /\ GridSize(b, z) <= MaxFetchTiles
    /\ LET df == _get_tile_xy(b, z)
           us == [i \in 1..Len(df) |-> TileUrl(z, df[i])]
           split == _filter_cached_and_uncached(us, fs, uc)
       IN  /\ tiles_df' = df
           /\ urls' = us
           /\ cached_files' = split[1]
           /\ uncached_urls' = split[2]
           /\ IF split[2] = <<>>
              THEN /\ pc' = "returned"
                   /\ result' = split[1]
                   /\ downloaded_tiles' = <<>>
                   /\ idx' = 0
              ELSE /\ pc' = "request"
                   /\ result' = <<>>
                   /\ downloaded_tiles' = split[1]
                   /\ idx' = 1
    /\ bbx' = b
    /\ zoom' = z
    /\ use_cache' = uc
    /\ fs0' = fs
    /\ requested' = <<>>
    /\ written' = {}
    /\ response' = "none"
    /\ err' = NoError
    /\ calls' = calls + 1
    /\ UNCHANGED fs
    /\ UNCHANGED xvars

\* a variant that opens the cache file before it checks the content type
WriteBeforeCheck(o) ==
    LET url == uncached_urls[idx]
        destination == _construct_tile_filename(url)
    IN  /\ pc = "request"
        /\ requested' = Append(requested, url)
        /\ response' = o
        /\ IF o = "transport_error"
           THEN /\ err' = [type |-> "RuntimeError", url |-> url]
                /\ pc' = "raised"
                /\ UNCHANGED <<fs, written>>
           ELSE /\ fs' = (destination :> "partial") @@ Mkdir(fs, Folder)
                /\ written' = written \cup {destination}
                /\ IF o = "bad_type"
                   THEN /\ err' = [type |-> "ValueError", url |-> url]
                        /\ pc' = "raised"
                   ELSE /\ pc' = "stream"
                        /\ UNCHANGED err
        /\ UNCHANGED <<bbx, zoom, use_cache, tiles_df, urls, cached_files, uncached_urls,
                       downloaded_tiles, idx, fs0, result, calls>>
        /\ UNCHANGED xvars

\* _download_tile lines 80-90: the request, the status and content type checks,
\* then the folder is made if it is missing and the cache file is opened for
\* writing (created, or truncated)
Request(o) ==
    LET url == uncached_urls[idx]
        destination == _construct_tile_filename(url)
    IN  /\ pc = "request"
        /\ requested' = Append(requested, url)
        /\ response' = o
        /\ CASE o = "transport_error" ->
                  /\ err' = [type |-> "RuntimeError", url |-> url]
                  /\ pc' = "raised"
                  /\ UNCHANGED <<fs, written>>
             [] o = "bad_type" ->
                  /\ err' = [type |-> "ValueError", url |-> url]
                  /\ pc' = "raised"
                  /\ UNCHANGED <<fs, written>>
             [] o = "ok" ->
                  /\ fs' = (destination :> "partial") @@ Mkdir(fs, Folder)
                  /\ written' = written \cup {destination}
                  /\ pc' = "stream"
                  /\ UNCHANGED err
        /\ UNCHANGED <<bbx, zoom, use_cache, tiles_df, urls, cached_files, uncached_urls,
                       downloaded_tiles, idx, fs0, result, calls>>
        /\ UNCHANGED xvars

\* _download_tile line 91: the body is streamed into the file
StreamBody(o) ==
    LET url == uncached_urls[idx]
        destination == _construct_tile_filename(url)
    IN  /\ pc = "stream"
        /\ response' = o
        /\ CASE o = "stream_error" ->
                  /\ err' = [type |-> "RuntimeError", url |-> url]
                  /\ pc' = "raised"
                  /\ UNCHANGED fs
             [] o = "ok" ->
                  /\ fs' = (destination :> "untagged") @@ fs
                  /\ pc' = "tag"
                  /\ UNCHANGED err
        /\ UNCHANGED <<bbx, zoom, use_cache, tiles_df, urls, cached_files, uncached_urls,
                       downloaded_tiles, idx, fs0, requested, written, result, calls>>
        /\ UNCHANGED xvars

\* a variant that puts the new path first
PrependTile(done, destination) == <<destination>> \o done

\* downloaded_tiles.append(...): cached_files is the same list
AppendTile(done, destination) == Append(done, destination)

\* _download_tile lines 94-103 and the loop of lines 141-145: the file is
\* tagged in place, its path appended, and the loop goes on or returns
TagTile(o) ==
    LET url == uncached_urls[idx]
        destination == _construct_tile_filename(url)
    IN  /\ pc = "tag"
        /\ response' = o
        /\ CASE o = "tag_error" ->
                  /\ err' = [type |-> "RasterioIOError", url |-> url]
                  /\ pc' = "raised"
                  /\ UNCHANGED <<fs, downloaded_tiles, cached_files, idx, result>>
             [] o = "ok" ->
                  /\ fs' = (destination :> "complete") @@ fs
                  /\ downloaded_tiles' = AppendTile(downloaded_tiles, destination)
                  /\ cached_files' = downloaded_tiles'
                  /\ UNCHANGED err
                  /\ IF idx = Len(uncached_urls)
                     THEN /\ pc' = "returned"
                          /\ result' = downloaded_tiles'
                          /\ UNCHANGED idx
                     ELSE /\ pc' = "request"
                          /\ idx' = idx + 1
                          /\ UNCHANGED result
        /\ UNCHANGED <<bbx, zoom, use_cache, tiles_df, urls, uncached_urls,
                       fs0, requested, written, calls>>
        /\ UNCHANGED xvars

\* the caller has the list or the exception; the cache folder stays as it is
Finish ==
    /\ pc \in {"returned", "raised"}
    /\ pc' = "idle"
    /\ bbx' = NoBox
    /\ zoom' = 0
    /\ use_cache' = FALSE
    /\ tiles_df' = <<>>
    /\ urls' = <<>>
    /\ cached_files' = <<>>
    /\ uncached_urls' = <<>>
    /\ downloaded_tiles' = <<>>
    /\ idx' = 0
    /\ fs0' = <<>>
    /\ requested' = <<>>
    /\ written' = {}
    /\ response' = "none"
    /\ result' = <<>>
    /\ err' = NoError
    /\ UNCHANGED <<fs, calls>>
    /\ UNCHANGED xvars

Next ==
    \/ \E b \in FetchBoxes, z \in MIN_ZOOM..MaxFetchZoom, uc \in BOOLEAN : Invoke(b, z, uc)
    \/ \E o \in {"ok", "transport_error", "bad_type"} : Request(o)
    \/ \E o \in {"ok", "stream_error"} : StreamBody(o)
    \/ \E o \in {"ok", "tag_error"} : TagTile(o)
    \/ Finish

Spec == Init /\ [][Next]_vars

----------------------------------------------------------------------------
(* A second run of _get_aws_terrain on the same cache folder, at the same
   time: stage is its position, args its arguments, ops the paths it has
   downloaded. It runs with use_cache=False and its downloads succeed. *)

OtherUrls ==
    LET df == _get_tile_xy(args.locations.val, args.zoom.val)
    IN  [i \in 1..Len(df) |-> TileUrl(args.zoom.val, df[i])]

\* the file the second run is downloading
OtherDestination == _construct_tile_filename(OtherUrls[Len(ops) + 1])

\* lines 125-138 of the second run
OtherInvoke(b, z) ==
    /\ stage = "none"
    /\ GridSize(b, z) <= MaxFetchTiles
    /\ stage' = IF _get_tile_xy(b, z) = <<>> THEN "o_returned" ELSE "o_request"
    /\ args' = [NoArgs EXCEPT !.locations = [type |-> "tuple",
                                             elems |-> <<"float", "float", "float", "float">>,
                                             val |-> b],
                              !.zoom = [type |-> "int", val |-> z],
                              !.use_cache = [type |-> "bool", val |-> FALSE]]
    /\ UNCHANGED <<pc, bbx, zoom, use_cache, tiles_df, urls, cached_files, uncached_urls,
                   downloaded_tiles, idx, fs, fs0, requested, written, response, result,
                   err, calls, answer, ops, raster_list, opened, data, meta, raster>>

\* _download_tile lines 79-90 of the second run: the cache file is opened at
\* its final path
OtherRequest ==
    /\ stage = "o_request"
    /\ stage' = "o_stream"
    /\ fs' = (OtherDestination :> "partial") @@ Mkdir(fs, Folder)
    /\ UNCHANGED <<pc, bbx, zoom, use_cache, tiles_df, urls, cached_files, uncached_urls,
                   downloaded_tiles, idx, fs0, requested, written, response, result,
                   err, calls, args, answer, ops, raster_list, opened, data, meta, raster>>

\* line 91 of the second run
OtherStream ==
    /\ stage = "o_stream"
    /\ stage' = "o_tag"
    /\ fs' = (OtherDestination :> "untagged") @@ fs
    /\ UNCHANGED <<pc, bbx, zoom, use_cache, tiles_df, urls, cached_files, uncached_urls,
                   downloaded_tiles, idx, fs0, requested, written, response, result,
                   err, calls, args, answer, ops, raster_list, opened, data, meta, raster>>

\* lines 94-103 and the loop of the second run
OtherTag ==
    /\ stage = "o_tag"
    /\ fs' = (OtherDestination :> "complete") @@ fs
    /\ ops' = Append(ops, OtherDestination)
    /\ stage' = IF Len(ops') = Len(OtherUrls) THEN "o_returned" ELSE "o_request"
    /\ UNCHANGED <<pc, bbx, zoom, use_cache, tiles_df, urls, cached_files, uncached_urls,
                   downloaded_tiles, idx, fs0, requested, written, response, result,
                   err, calls, args, answer, raster_list, opened, data, meta, raster>>

ConcurrentNext ==
    \/ Next
    \/ \E b \in FetchBoxes, z \in MIN_ZOOM..MaxFetchZoom : OtherInvoke(b, z)
    \/ OtherRequest
    \/ OtherStream
    \/ OtherTag

SpecConcurrent == Init /\ [][ConcurrentNext]_vars

----------------------------------------------------------------------------
(* raster_operations.py: _merge_rasters *)

(* A raster file is a dataset on a grid of unit pixels: west and north are   *)
(* the coordinates of its top-left corner, row 1 is the northernmost row,    *)
(* px[<<row, col>>] the value of band 1.  An array is [count, h, w, dtype,   *)
(* px]: its own shape and contents, apart from any metadata.  The string of  *)
(* a tag is a sequence of tokens, a name or the separator ", ".              *)

\* nodata=-9999, given to merge() and written to the metadata
NODATA == -9999

\* the order of Python's strings on the source names: the empty string first
SourceNames == <<"etopo1", "gmted", "srtm">>

\* the side of a tile in pixels (512 on the server)
TilePx == 2
\* _merge_rasters is applied to lists of at most MaxMerge files
MaxMerge == 2

\* sources.split(", "): the fields between the separators; one empty field
\* for the empty string
RECURSIVE Split(_)
Split(str) ==
    IF \A k \in DOMAIN str : str[k] # ", " THEN <<str>>
    ELSE LET k == CHOOSE i \in DOMAIN str :
                      str[i] = ", " /\ \A j \in 1..(i - 1) : str[j] # ", "
         IN  <<SubSeq(str, 1, k - 1)>> \o Split(SubSeq(str, k + 1, Len(str)))

Rank(field) ==
    IF field = <<>> THEN 0
    ELSE CHOOSE k \in DOMAIN SourceNames : SourceNames[k] = field[1]

\* sorted(imagery_sources_set)
RECURSIVE Sorted(_)
Sorted(S) ==
    IF S = {} THEN <<>>
    ELSE LET m == CHOOSE f \in S : \A g \in S : Rank(f) <= Rank(g)
         IN  <<m>> \o Sorted(S \ {m})

\* ", ".join(fields)
RECURSIVE Join(_)
Join(fields) ==
    IF fields = <<>> THEN <<>>
    ELSE IF Len(fields) = 1 THEN fields[1]
    ELSE fields[1] \o <<", ">> \o Join(Tail(fields))

\* raster.tags().get("imagery_sources", "")
TagOf(ds) == IF ds.tags.present THEN ds.tags.value ELSE <<>>

\* a variant that reads the tag of the first raster only
SourcesOfFirst(rasters) ==
    {Split(TagOf(rasters[1]))[k] : k \in DOMAIN Split(TagOf(rasters[1]))}

\* lines 34 and 41-43: the set of the fields of every raster's tag
SourcesSet(rasters) ==
    UNION {{Split(TagOf(rasters[i]))[k] : k \in DOMAIN Split(TagOf(rasters[i]))} :
              i \in DOMAIN rasters}

\* a variant that keeps the extent of the first dataset
merge_first_extent(rasters) ==
    LET first == rasters[1]
    IN  [mosaic |-> [count |-> first.count, h |-> first.height, w |-> first.width,
                     dtype |-> first.dtype, px |-> first.px],
         out_trans |-> [a |-> 1, west |-> first.west, e |-> -1, north |-> first.north]]

\* rasterio.merge.merge(rasters, nodata=-9999): the union of the extents, the
\* band count and dtype of the first dataset, each cell from the first dataset
\* of the list that covers it, nodata where none does
merge(rasters) ==
    LET first == rasters[1]
        I == DOMAIN rasters
        w == CHOOSE v \in {rasters[i].west : i \in I} :
                 \A i \in I : v <= rasters[i].west
        e == CHOOSE v \in {rasters[i].west + rasters[i].width : i \in I} :
                 \A i \in I : v >= rasters[i].west + rasters[i].width
        n == CHOOSE v \in {rasters[i].north : i \in I} :
                 \A i \in I : v >= rasters[i].north
        s == CHOOSE v \in {rasters[i].north - rasters[i].height : i \in I} :
                 \A i \in I : v <= rasters[i].north - rasters[i].height
        row(i, r) == rasters[i].north - n + r
        col(i, c) == w + c - rasters[i].west
        covers(i, r, c) == /\ 1 <= row(i, r) /\ row(i, r) <= rasters[i].height
                           /\ 1 <= col(i, c) /\ col(i, c) <= rasters[i].width
        cell(r, c) ==
            IF \E i \in I : covers(i, r, c)
            THEN LET i == CHOOSE j \in I :
                              covers(j, r, c) /\ \A k \in 1..(j - 1) : ~covers(k, r, c)
                 IN  rasters[i].px[<<row(i, r), col(i, c)>>]
            ELSE NODATA
    IN  [mosaic |-> [count |-> first.count, h |-> n - s, w |-> e - w,
                     dtype |-> first.dtype,
                     px |-> [rc \in (1..(n - s)) \X (1..(e - w)) |-> cell(rc[1], rc[2])]],
         out_trans |-> [a |-> 1, west |-> w, e |-> -1, north |-> n]]

\* _merge_rasters(raster_list): raster_list[0] of an empty list raises
\* IndexError before any file is opened; otherwise every file is opened,
\* merged, and the metadata of the first one is copied and updated
_merge_rasters(rl) ==
    IF rl = <<>>
    THEN [raised |-> "IndexError", opened |-> <<>>, mosaic |-> NoArray, meta |-> NoMeta]
    ELSE LET first_raster == rl[1]
             m == merge(rl)
         IN  [raised |-> "none",
              opened |-> rl,
              mosaic |-> m.mosaic,
              meta |-> [driver |-> "GTiff",
                        dtype |-> first_raster.dtype,
                        nodata |-> NODATA,
                        width |-> m.mosaic.w,
                        height |-> m.mosaic.h,
                        count |-> first_raster.count,
                        crs |-> "EPSG:3857",
                        transform |-> m.out_trans,
                        imagery_sources |-> Join(Sorted(SourcesSet(rl)))]]

(* Direct calls of _merge_rasters *)

\* a 2 x 2 file (TilePx x TilePx) of one band whose cells are told apart
TestTile(west, north, fill, dtype, tag) ==
    [west |-> west, north |-> north, width |-> TilePx, height |-> TilePx,
     count |-> 1, dtype |-> dtype,
     px |-> [rc \in (1..TilePx) \X (1..TilePx) |-> 100 * fill + 10 * rc[1] + rc[2]],
     tags |-> tag]

\* no tag, an empty one, one name, two names
TagSamples ==
    {[present |-> FALSE, value |-> <<>>],
     [present |-> TRUE, value |-> <<>>],
     [present |-> TRUE, value |-> <<"srtm">>],
     [present |-> TRUE, value |-> <<"etopo1", ", ", "srtm">>]}

\* from_origin(10 + 2 * i, 10, 1, 1) of the test suite, and the place below
MergeTiles ==
    {TestTile(10 + TilePx * k, 10, k + 1, dt, tg) :
         k \in 0..1, dt \in {"int16", "float32"}, tg \in TagSamples}
    \cup {TestTile(10, 10 - TilePx, 3, "float32", tg) : tg \in TagSamples}

MergeInputs == UNION {[1..n -> MergeTiles] : n \in 0..MaxMerge}

MergeInit ==
    /\ pc = "merge_start"
    /\ raster_list \in MergeInputs
    /\ bbx = NoBox
    /\ zoom = 0
    /\ use_cache = FALSE
    /\ tiles_df = <<>>
    /\ urls = <<>>
    /\ cached_files = <<>>
    /\ uncached_urls = <<>>
    /\ downloaded_tiles = <<>>
    /\ idx = 0
    /\ fs = <<>>
    /\ fs0 = <<>>
    /\ requested = <<>>
    /\ written = {}
    /\ response = "none"
    /\ result = <<>>
    /\ err = NoError
    /\ calls = 0
    /\ stage = "none"
    /\ args = NoArgs
    /\ answer = ""
    /\ ops = <<>>
    /\ opened = <<>>
    /\ data = NoArray
    /\ meta = NoMeta
    /\ raster = NoRaster

\* mosaic, meta = _merge_rasters(raster_list)
MergeRasters ==
    /\ pc = "merge_start"
    /\ LET out == _merge_rasters(raster_list)
       IN  /\ opened' = out.opened
           /\ data' = out.mosaic
           /\ meta' = out.meta
           /\ IF out.raised = "none"
              THEN pc' = "merge_done" /\ UNCHANGED err
              ELSE pc' = "merge_raised" /\ err' = [type |-> out.raised, url |-> <<>>]
    /\ UNCHANGED <<bbx, zoom, use_cache, tiles_df, urls, cached_files, uncached_urls,
                   downloaded_tiles, idx, fs, fs0, requested, written, response,
                   result, calls, stage, args, answer, ops, raster_list, raster>>

MergeNext == MergeRasters

SpecMerge == MergeInit /\ [][MergeNext]_vars

----------------------------------------------------------------------------
(* raster_operations.py: _clip_bbx and _reproject_raster *)

\* the place of a tile fraction on the pixel grid of zoom z, whose tiles are
\* TilePx wide: the largest pixel edge not beyond it, the smallest not before
FloorPx(f, z) ==
    LET num == f.mag * 2^z * TilePx
        q == num \div 2^FracBits
        whole == f.exact /\ num % 2^FracBits = 0
    IN  IF f.neg THEN (IF whole THEN -q ELSE -q - 1) ELSE q

CeilPx(f, z) ==
    LET num == f.mag * 2^z * TilePx
        q == num \div 2^FracBits
        whole == f.exact /\ num % 2^FracBits = 0
    IN  IF f.neg THEN -q ELSE (IF whole THEN q ELSE q + 1)

\* from_bounds(*web_mercator_bbox, transform): the window of the box on the
\* dataset's grid, its edges taken to whole pixels (the stop edge down or up,
\* as the read rounds); the offsets may be negative and the window may reach
\* beyond the dataset
FromBounds(m, b, z, up) ==
    LET xa == XFrac(b[1])
        xb == XFrac(b[3])
        ya == YFrac(b[2])
        yb == YFrac(b[4])
        Stop(f) == IF up THEN CeilPx(f, z) ELSE FloorPx(f, z)
        col_start == Min(FloorPx(xa, z), FloorPx(xb, z)) - m.transform.west
        col_stop == Max(Stop(xa), Stop(xb)) - m.transform.west
        row_start == Min(FloorPx(ya, z), FloorPx(yb, z)) + m.transform.north
        row_stop == Max(Stop(ya), Stop(yb)) + m.transform.north
    IN  [col_off |-> col_start, row_off |-> row_start,
         width |-> col_stop - col_start, height |-> row_stop - row_start]

\* Window.crop(height, width), which a read that is not boundless applies
Crop(win, height, width) ==
    LET row_start == Min(Max(win.row_off, 0), height)
        row_stop == Max(0, Min(win.row_off + win.height, height))
        col_start == Min(Max(win.col_off, 0), width)
        col_stop == Max(0, Min(win.col_off + win.width, width))
    IN  [col_off |-> col_start, row_off |-> row_start,
         width |-> Max(0, col_stop - col_start), height |-> Max(0, row_stop - row_start)]

\* the window that dataset.read(window=window) reads
ClipWindow(m, b, z, up) == Crop(FromBounds(m, b, z, up), m.height, m.width)

\* dataset.window_transform(window): the dataset's transform moved to the
\* offsets of the window it is given
WindowTransform(m, win) ==
    [m.transform EXCEPT !.west = m.transform.west + win.col_off,
                        !.north = m.transform.north - win.row_off]

\* dataset.read(window=window)
ReadWindow(a, win) ==
    [count |-> a.count, h |-> win.height, w |-> win.width, dtype |-> a.dtype,
     px |-> [rc \in (1..win.height) \X (1..win.width) |->
                 a.px[<<rc[1] + win.row_off, rc[2] + win.col_off>>]]]

\* a variant that leaves the size of the metadata as it was
clip_bbx_stale_size(a, m, b, z, up) ==
    LET window == FromBounds(m, b, z, up)
        clipped == ReadWindow(a, ClipWindow(m, b, z, up))
    IN  [data |-> clipped,
         meta |-> [m EXCEPT !.transform = WindowTransform(m, window)]]

\* _clip_bbx(data, meta, bbx): the read crops the window to the dataset, and
\* the metadata take the transform of the window as from_bounds gave it and
\* the shape of the data read
_clip_bbx(a, m, b, z, up) ==
    LET window == FromBounds(m, b, z, up)
        clipped == ReadWindow(a, ClipWindow(m, b, z, up))
    IN  [data |-> clipped,
         meta |-> [m EXCEPT !.transform = WindowTransform(m, window),
                            !.height = clipped.h,
                            !.width = clipped.w]]

\* a variant that accepts every identifier
ParseableAnyCrs(crs) == crs \in {"EPSG:3857", "EPSG:4326", "bogus"}

\* pyproj.CRS(crs) accepts the identifier
ParseableCrs(crs) == crs \in {"EPSG:3857", "EPSG:4326"}

\* self.data[0]: the first band, an array without the band axis
Band0(a) == [a EXCEPT !.count = 0]

\* _reproject_raster(data, meta, crs) for a parseable crs: the resampled array
\* has the shape and the pixel size the warp gives it (warp), and the copy of
\* the metadata takes the crs, the new transform, that shape, and a "bounds"
\* entry (x.min, y.max, x.max, y.min)
_reproject_raster(a, m, crs, warp) ==
    LET shape == warp.shape
        reprojected ==
            [count |-> 0, h |-> shape[1], w |-> shape[2], dtype |-> a.dtype,
             px |-> [rc \in (1..shape[1]) \X (1..shape[2]) |->
                         IF a.h = 0 \/ a.w = 0 THEN NODATA
                         ELSE a.px[<<Min(rc[1], a.h), Min(rc[2], a.w)>>]]]
        transform == [a |-> warp.res, west |-> m.transform.west * warp.res,
                      e |-> -warp.res, north |-> m.transform.north * warp.res]
    IN  [data |-> reprojected,
         meta |-> ("bounds" :> <<transform.west, transform.north,
                                 transform.west + shape[2] * transform.a,
                                 transform.north + shape[1] * transform.e>>)
                  @@ [m EXCEPT !.crs = crs, !.transform = transform,
                               !.height = shape[1], !.width = shape[2]]]

\* the shapes the warp may give an array of this shape
WarpShapes(a) == (1..(a.h + 1)) \X (1..(a.w + 1))

\* the shapes and pixel sizes the warp may give an array of this shape
Warps(a) == [shape : WarpShapes(a), res : 1..2]

NoWarp == [shape |-> <<1, 1>>, res |-> 1]

----------------------------------------------------------------------------
(* raster.py: class Raster *)

\* the unit of the first axis of a crs, "unknown" without one
UnitName(crs) ==
    CASE crs = "EPSG:3857" -> "metre"
      [] crs = "EPSG:4326" -> "degree"
      [] OTHER -> "unknown"

\* lines 70-81: Raster._resolution
_resolution(transform, crs) ==
    [x |-> Abs(transform.a), y |-> Abs(transform.e), unit |-> UnitName(crs)]

\* lines 57-62 and 185-190: the bounds of a grid under a transform
BoundsOf(transform, height, width) ==
    <<transform.west, transform.north + height * transform.e,
      transform.west + width * transform.a, transform.north>>

\* Raster(data, meta) and __post_init__: the first band of the array, and the
\* fields read from the metadata
Raster(d, m) ==
    [data |-> Band0(d), meta |-> m, crs |-> m.crs, height |-> m.height,
     width |-> m.width, dtype |-> m.dtype, nodata |-> m.nodata,
     transform |-> m.transform,
     bounds |-> BoundsOf(m.transform, m.height, m.width),
     resolution |-> _resolution(m.transform, m.crs),
     imagery_sources |-> m.imagery_sources]

\* a variant of reproject that leaves the bounds and the resolution as they were
reproject_stale_bounds(r, crs, warp) ==
    IF r.crs = crs
    THEN [raised |-> "none", raster |-> r, warped |-> FALSE]
    ELSE IF ~ParseableCrs(crs)
    THEN [raised |-> "ValueError", raster |-> r, warped |-> FALSE]
    ELSE LET out == _reproject_raster(r.data, r.meta, crs, warp)
         IN  [raised |-> "none",
              raster |-> [r EXCEPT !.data = out.data, !.meta = out.meta,
                                   !.crs = out.meta.crs,
                                   !.transform = out.meta.transform,
                                   !.height = out.meta.height,
                                   !.width = out.meta.width],
              warped |-> TRUE]

\* a variant of reproject that resamples also when the raster has the crs
reproject_always(r, crs, warp) ==
    IF ~ParseableCrs(crs)
    THEN [raised |-> "ValueError", raster |-> r, warped |-> FALSE]
    ELSE LET out == _reproject_raster(r.data, r.meta, crs, warp)
         IN  [raised |-> "none",
              raster |-> [r EXCEPT !.data = out.data, !.meta = out.meta,
                                   !.crs = out.meta.crs,
                                   !.transform = out.meta.transform,
                                   !.height = out.meta.height,
                                   !.width = out.meta.width,
                                   !.bounds = BoundsOf(out.meta.transform,
                                                       out.meta.height, out.meta.width),
                                   !.resolution = _resolution(out.meta.transform,
                                                              out.meta.crs)],
              warped |-> TRUE]

\* Raster.reproject(crs): nothing if the raster has that crs; otherwise
\* _reproject_raster raises ValueError for a crs that cannot be parsed, before
\* anything is assigned, or the data and metadata are replaced and crs,
\* transform, height, width, bounds and resolution are set again from the
\* metadata
reproject(r, crs, warp) ==
    IF r.crs = crs
    THEN [raised |-> "none", raster |-> r, warped |-> FALSE]
    ELSE IF ~ParseableCrs(crs)
    THEN [raised |-> "ValueError", raster |-> r, warped |-> FALSE]
    ELSE LET out == _reproject_raster(r.data, r.meta, crs, warp)
         IN  [raised |-> "none",
              raster |-> [r EXCEPT !.data = out.data, !.meta = out.meta,
                                   !.crs = out.meta.crs,
                                   !.transform = out.meta.transform,
                                   !.height = out.meta.height,
                                   !.width = out.meta.width,
                                   !.bounds = BoundsOf(out.meta.transform,
                                                       out.meta.height, out.meta.width),
                                   !.resolution = _resolution(out.meta.transform,
                                                              out.meta.crs)],
              warped |-> TRUE]

\* lines 159-162: valid_compressions, None written "None"
valid_compressions == <<"None", "lzw", "packbits", "deflate", "zstd", "lzma">>

\* a variant of to_tif that updates the metadata before it checks the value
to_tif_update_first(r, files, path, compress) ==
    IF \A k \in DOMAIN valid_compressions : valid_compressions[k] # compress
    THEN [raised |-> "ValueError",
          raster |-> [r EXCEPT !.meta = ("compress" :> compress) @@ r.meta],
          files |-> files, io |-> <<>>]
    ELSE [raised |-> "none",
          raster |-> [r EXCEPT !.meta = ("compress" :> compress) @@ r.meta],
          files |-> (path :> "tif") @@ files,
          io |-> <<"rasterio.open", "dst.write">>]

\* Raster.to_tif(path, compress): ValueError for a value that is not in
\* valid_compressions; otherwise the metadata take the compress entry, the
\* file is opened for writing and the data are written to it
to_tif(r, files, path, compress) ==
    IF \A k \in DOMAIN valid_compressions : valid_compressions[k] # compress
    THEN [raised |-> "ValueError", raster |-> r, files |-> files, io |-> <<>>]
    ELSE [raised |-> "none",
          raster |-> [r EXCEPT !.meta = ("compress" :> compress) @@ r.meta],
          files |-> (path :> "tif") @@ files,
          io |-> <<"rasterio.open", "dst.write">>]

\* Raster.to_numpy(): return self.data, the array object the raster holds
to_numpy(r) == [obj |-> "self.data"]

----------------------------------------------------------------------------
(* get_elev_raster.py: get_elev_raster *)

\* utils.py TILE_SIZE = 0.15, in hundredths
TILE_SIZE == 15

\* isinstance(x, (int, float)) and isinstance(x, int): a bool is an int
IsNumber(type) == type \in {"int", "float", "bool"}
IsInt(type) == type \in {"int", "bool"}

\* a variant that takes any sequence for a tuple
ValidLocationsAnySequence(l) ==
    /\ l.type \in {"tuple", "list"}
    /\ Len(l.val) = 4
    /\ \A k \in 1..4 : IsNumber(l.elems[k])
    /\ \A k \in {1, 3} : -MAX_LONGITUDE <= l.val[k] /\ l.val[k] <= MAX_LONGITUDE
    /\ \A k \in {2, 4} : -MAX_LATITUDE <= l.val[k] /\ l.val[k] <= MAX_LATITUDE

\* lines 67-73
ValidLocations(l) ==
    /\ l.type = "tuple"
    /\ Len(l.val) = 4
    /\ \A k \in 1..4 : IsNumber(l.elems[k])
    /\ \A k \in {1, 3} : -MAX_LONGITUDE <= l.val[k] /\ l.val[k] <= MAX_LONGITUDE
    /\ \A k \in {2, 4} : -MAX_LATITUDE <= l.val[k] /\ l.val[k] <= MAX_LATITUDE

\* lines 67-96: the exception of the first check that fails, or "none"
Validate(a) ==
    IF ~ValidLocations(a.locations) THEN "AssertionError"
    ELSE IF ~(IsInt(a.zoom.type) /\ MIN_ZOOM <= a.zoom.val /\ a.zoom.val <= MAX_ZOOM)
         THEN "AssertionError"
    ELSE IF a.clip \notin {"bbox", "tile"} THEN "ValueError"
    ELSE IF a.cache_folder.type # "none" /\ a.cache_folder.type # "str" THEN "TypeError"
    ELSE IF a.use_cache.type # "bool" THEN "TypeError"
    ELSE IF a.delete_cache.type # "bool" THEN "TypeError"
    ELSE IF a.verbose.type # "bool" THEN "TypeError"
    ELSE "none"

\* size > settings.min_size_for_confirmation, where size is
\* len(_get_tile_xy(bbx, z)) * TILE_SIZE / 1024: both sides times 102400
SizeExceeds(b, z, min_size) == Len(_get_tile_xy(b, z)) * TILE_SIZE > min_size * 100 * 1024

\* confirmation.lower()
Lower(str) == IF str = "Y" THEN "y" ELSE IF str = "N" THEN "n" ELSE str

\* a variant that goes on unless the answer is no
AbortsOnNo(str) == Lower(str) = "n"

\* confirmation.lower() != "y"
Aborts(str) == Lower(str) # "y"

\* the file at a path returned by _get_aws_terrain, as a dataset: the tile's
\* TilePx x TilePx cells at the tile's place on the pixel grid of the zoom
\* level (north up), tagged once the download has tagged it
FileDataset(path) ==
    LET i == CHOOSE k \in DOMAIN tiles_df :
                 _construct_tile_filename(TileUrl(zoom, tiles_df[k])) = path
        t == tiles_df[i]
    IN  TestTile(t[1] * TilePx, -(t[2] * TilePx), 1 + t[1] + 2^zoom * t[2], "int16",
                 IF fs[path] = "complete"
                 THEN [present |-> TRUE, value |-> <<"srtm">>]
                 ELSE [present |-> FALSE, value |-> <<>>])

(* Inputs *)

Typed(type, val) == [type |-> type, val |-> val]

Tuple4(b) == [type |-> "tuple", elems |-> <<"float", "float", "float", "float">>, val |-> b]

\* the calls that pass the checks: the boxes of FetchBoxes with longitudes up
\* to 180, every combination of the options, the settings off, on with the
\* default threshold, on with threshold 0
GoodCalls ==
    {[locations |-> Tuple4(b), zoom |-> Typed("int", z), crs |-> c, clip |-> cl,
      cache_folder |-> Typed("none", ""), use_cache |-> Typed("bool", uc),
      delete_cache |-> Typed("bool", dc), verbose |-> Typed("bool", FALSE),
      ask_confirmation |-> st[1], min_size_for_confirmation |-> st[2]] :
        b \in {<<-514, 4133, 956, 5109>>, <<-12310, 3770, -12290, 3780>>},
        z \in MIN_ZOOM..MaxFetchZoom,
        c \in {"None", "EPSG:3857", "EPSG:4326", "bogus"},
        cl \in {"bbox", "tile"},
        uc \in BOOLEAN,
        dc \in BOOLEAN,
        st \in {<<FALSE, 1>>, <<TRUE, 1>>, <<TRUE, 0>>}}

BaseCall ==
    [locations |-> Tuple4(<<-514, 4133, 956, 5109>>), zoom |-> Typed("int", 1),
     crs |-> "EPSG:3857", clip |-> "bbox", cache_folder |-> Typed("str", cache_folder),
     use_cache |-> Typed("bool", TRUE), delete_cache |-> Typed("bool", TRUE),
     verbose |-> Typed("bool", TRUE), ask_confirmation |-> TRUE,
     min_size_for_confirmation |-> 0]

\* calls with one argument that the checks refuse
BadCalls ==
    {[BaseCall EXCEPT !.locations = l] :
        l \in {[type |-> "str", elems |-> <<>>, val |-> <<>>],
               [type |-> "list", elems |-> <<"float", "float", "float", "float">>,
                val |-> <<-514, 4133, 956, 5109>>],
               [type |-> "tuple", elems |-> <<"float", "float", "float">>,
                val |-> <<-514, 4133, 956>>],
               [type |-> "tuple", elems |-> <<"float", "str", "float", "float">>,
                val |-> <<-514, 0, 956, 5109>>],
               Tuple4(<<17000, 0, 19000, 4133>>),
               Tuple4(<<-18001, 0, 0, 4133>>),
               Tuple4(<<0, 0, 956, 9001>>),
               Tuple4(<<0, -9001, 956, 0>>)}}
    \cup {[BaseCall EXCEPT !.zoom = v] :
             v \in {Typed("int", MAX_ZOOM + 1), Typed("int", MIN_ZOOM - 1),
                    Typed("float", 1), Typed("str", 0), Typed("none", 0)}}
    \cup {[BaseCall EXCEPT !.clip = v] : v \in {"None", "box", ""}}
    \cup {[BaseCall EXCEPT !.cache_folder = Typed("int", "")],
          [BaseCall EXCEPT !.cache_folder = Typed("Path", cache_folder)]}
    \cup {[BaseCall EXCEPT !.use_cache = v] : v \in {Typed("none", FALSE), Typed("int", TRUE)}}
    \cup {[BaseCall EXCEPT !.delete_cache = v] : v \in {Typed("none", FALSE), Typed("str", TRUE)}}
    \cup {[BaseCall EXCEPT !.verbose = v] : v \in {Typed("none", FALSE), Typed("int", TRUE)}}

ElevCalls == GoodCalls \cup {BaseCall} \cup BadCalls

\* the cache file of a tile
CachePath(z, t) == _construct_tile_filename(TileUrl(z, t))

\* the cache folder as earlier calls may have left it: missing, empty, with a
\* complete tile, with a tile whose download broke off
ElevCaches ==
    {<<>>,
     Folder :> "dir",
     (Folder :> "dir") @@ (CachePath(0, <<0, 0>>) :> "complete"),
     (Folder :> "dir") @@ (CachePath(1, <<0, 0>>) :> "complete"),
     (Folder :> "dir") @@ (CachePath(1, <<0, 0>>) :> "partial")}

ElevInit ==
    /\ stage = "e_idle"
    /\ fs \in ElevCaches
    /\ pc = "idle"
    /\ bbx = NoBox
    /\ zoom = 0
    /\ use_cache = FALSE
    /\ tiles_df = <<>>
    /\ urls = <<>>
    /\ cached_files = <<>>
    /\ uncached_urls = <<>>
    /\ downloaded_tiles = <<>>
    /\ idx = 0
    /\ fs0 = <<>>
    /\ requested = <<>>
    /\ written = {}
    /\ response = "none"
    /\ result = <<>>
    /\ err = NoError
    /\ calls = 0
    /\ args = NoArgs
    /\ answer = ""
    /\ ops = <<>>
    /\ raster_list = <<>>
    /\ opened = <<>>
    /\ data = NoArray
    /\ meta = NoMeta
    /\ raster = NoRaster

\* lines 66-104: the checks, the cache folder, the size estimate
ElevCall(a) ==
    /\ stage = "e_idle"
    /\ Validate(a) = "none" => GridSize(a.locations.val, a.zoom.val) <= MaxFetchTiles
    /\ args' = a
    /\ fs0' = fs
    /\ IF Validate(a) # "none"
       THEN /\ err' = [type |-> Validate(a), url |-> <<>>]
            /\ stage' = "e_raised"
            /\ UNCHANGED <<fs, ops>>
       ELSE /\ fs' = Mkdir(fs, Folder)
            /\ UNCHANGED err
            /\ LET made == IF Exists(fs, Folder) THEN <<>> ELSE <<"mkdir">>
               IN  IF /\ a.ask_confirmation
                      /\ SizeExceeds(a.locations.val, a.zoom.val,
                                     a.min_size_for_confirmation)
                   THEN stage' = "prompt" /\ ops' = made \o <<"prompt">>
                   ELSE stage' = "fetch" /\ ops' = made
    /\ UNCHANGED <<pc, bbx, zoom, use_cache, tiles_df, urls, cached_files, uncached_urls,
                   downloaded_tiles, idx, requested, written, response, result, calls,
                   answer, raster_list, opened, data, meta, raster>>

\* lines 105-110: the user's answer; on anything but yes the cache folder is
\* removed if delete_cache says so, and None is returned
Answer(str) ==
    /\ stage = "prompt"
    /\ answer' = str
    /\ IF Aborts(str)
       THEN /\ stage' = "e_returned"
            /\ IF args.delete_cache.val
               THEN fs' = Rmtree(fs, Folder) /\ ops' = Append(ops, "rmtree")
               ELSE UNCHANGED <<fs, ops>>
       ELSE /\ stage' = "fetch"
            /\ UNCHANGED <<fs, ops>>
    /\ UNCHANGED <<pc, bbx, zoom, use_cache, tiles_df, urls, cached_files, uncached_urls,
                   downloaded_tiles, idx, fs0, requested, written, response, result,
                   err, calls, args, raster_list, opened, data, meta, raster>>

\* lines 112-118: downloaded_tiles = _get_aws_terrain(...)
ElevFetch ==
    /\ stage = "fetch"
    /\ Invoke(args.locations.val, args.zoom.val, args.use_cache.val)

\* a variant that goes on with the tiles it has
ElevSwallow ==
    /\ stage = "fetch"
    /\ pc = "raised"
    /\ pc' = "returned"
    /\ result' = downloaded_tiles
    /\ UNCHANGED <<bbx, zoom, use_cache, tiles_df, urls, cached_files, uncached_urls,
                   downloaded_tiles, idx, fs, fs0, requested, written, response,
                   err, calls>>
    /\ UNCHANGED xvars

\* lines 112-139 have no handler: what _get_aws_terrain raises leaves
\* get_elev_raster as it is
ElevPropagate ==
    /\ stage = "fetch"
    /\ pc = "raised"
    /\ stage' = "e_raised"
    /\ UNCHANGED <<pc, bbx, zoom, use_cache, tiles_df, urls, cached_files, uncached_urls,
                   downloaded_tiles, idx, fs, fs0, requested, written, response, result,
                   err, calls, args, answer, ops, raster_list, opened, data, meta,
                   raster>>

\* lines 120-124: mosaic, meta = _merge_rasters(downloaded_tiles); a file
\* whose download broke off cannot be read
MergeStep ==
    /\ stage = "fetch"
    /\ pc = "returned"
    /\ ops' = Append(ops, "merge")
    /\ LET rl == [i \in DOMAIN result |-> FileDataset(result[i])]
           out == _merge_rasters(rl)
           broken == \E i \in DOMAIN result : fs[result[i]] = "partial"
       IN  /\ raster_list' = rl
           /\ IF out.raised # "none" \/ broken
              THEN /\ err' = [type |-> IF broken THEN "RasterioIOError" ELSE out.raised,
                              url |-> <<>>]
                   /\ stage' = "e_raised"
                   /\ UNCHANGED <<opened, data, meta>>
              ELSE /\ opened' = out.opened
                   /\ data' = out.mosaic
                   /\ meta' = out.meta
                   /\ stage' = "clip"
                   /\ UNCHANGED err
    /\ UNCHANGED <<pc, bbx, zoom, use_cache, tiles_df, urls, cached_files, uncached_urls,
                   downloaded_tiles, idx, fs, fs0, requested, written, response, result,
                   calls, args, answer, raster>>

\* lines 127-128: if clip == "bbox": mosaic, meta = _clip_bbx(mosaic, meta, locations)
ClipStep(up) ==
    /\ stage = "clip"
    /\ stage' = "delete"
    /\ IF args.clip = "bbox"
       THEN LET out == _clip_bbx(data, meta, args.locations.val, args.zoom.val, up)
            IN  /\ data' = out.data
                /\ meta' = out.meta
                /\ ops' = Append(ops, "clip")
       ELSE UNCHANGED <<data, meta, ops>>
    /\ UNCHANGED <<pc, bbx, zoom, use_cache, tiles_df, urls, cached_files, uncached_urls,
                   downloaded_tiles, idx, fs, fs0, requested, written, response, result,
                   err, calls, args, answer, raster_list, opened, raster>>

\* a variant that removes only the files the call has written
DeleteStepOwnFiles ==
    /\ stage = "delete"
    /\ stage' = "wrap"
    /\ IF args.delete_cache.val
       THEN /\ fs' = [f \in DOMAIN fs \ written |-> fs[f]]
            /\ ops' = Append(ops, "rmtree")
       ELSE UNCHANGED <<fs, ops>>
    /\ UNCHANGED <<pc, bbx, zoom, use_cache, tiles_df, urls, cached_files, uncached_urls,
                   downloaded_tiles, idx, fs0, requested, written, response, result,
                   err, calls, args, answer, raster_list, opened, data, meta, raster>>

\* lines 130-131: if delete_cache: shutil.rmtree(cache_folder)
DeleteStep ==
    /\ stage = "delete"
    /\ stage' = "wrap"
    /\ IF args.delete_cache.val
       THEN fs' = Rmtree(fs, Folder) /\ ops' = Append(ops, "rmtree")
       ELSE UNCHANGED <<fs, ops>>
    /\ UNCHANGED <<pc, bbx, zoom, use_cache, tiles_df, urls, cached_files, uncached_urls,
                   downloaded_tiles, idx, fs0, requested, written, response, result,
                   err, calls, args, answer, raster_list, opened, data, meta, raster>>

\* line 133 and Raster.__post_init__: raster = Raster(mosaic, meta)
WrapStep ==
    /\ stage = "wrap"
    /\ stage' = "reproject"
    /\ raster' = Raster(data, meta)
    /\ ops' = Append(ops, "raster")
    /\ UNCHANGED <<pc, bbx, zoom, use_cache, tiles_df, urls, cached_files, uncached_urls,
                   downloaded_tiles, idx, fs, fs0, requested, written, response, result,
                   err, calls, args, answer, raster_list, opened, data, meta>>

\* lines 136-139 and Raster.reproject: the raster is reprojected if a crs other
\* than EPSG:3857 is asked for, and returned
ReprojectStep(warp) ==
    /\ stage = "reproject"
    /\ IF args.crs # "None" /\ args.crs # "EPSG:3857"
       THEN LET out == reproject(raster, args.crs, warp)
            IN  /\ IF out.warped THEN warp \in Warps(raster.data) ELSE warp = NoWarp
                /\ ops' = IF raster.crs # args.crs THEN Append(ops, "reproject") ELSE ops
                /\ raster' = out.raster
                /\ IF out.raised # "none"
                   THEN /\ err' = [type |-> out.raised, url |-> <<>>]
                        /\ stage' = "e_raised"
                   ELSE /\ stage' = "e_returned"
                        /\ UNCHANGED err
       ELSE /\ warp = NoWarp
            /\ stage' = "e_returned"
            /\ UNCHANGED <<raster, ops, err>>
    /\ UNCHANGED <<pc, bbx, zoom, use_cache, tiles_df, urls, cached_files, uncached_urls,
                   downloaded_tiles, idx, fs, fs0, requested, written, response, result,
                   calls, args, answer, raster_list, opened, data, meta>>

ElevNext ==
    \/ \E a \in ElevCalls : ElevCall(a)
    \/ \E str \in {"y", "Y", "n", ""} : Answer(str)
    \/ ElevFetch
    \/ \E o \in {"ok", "transport_error", "bad_type"} : Request(o)
    \/ \E o \in {"ok", "stream_error"} : StreamBody(o)
    \/ \E o \in {"ok", "tag_error"} : TagTile(o)
    \/ ElevPropagate
    \/ MergeStep
    \/ \E up \in BOOLEAN : ClipStep(up)
    \/ DeleteStep
    \/ WrapStep
    \/ \E warp \in [shape : (1..(2 * TilePx * MaxFetchTiles)) \X (1..(2 * TilePx * MaxFetchTiles)),
                    res : 1..2] :
           ReprojectStep(warp)

SpecElev == ElevInit /\ [][ElevNext]_vars

----------------------------------------------------------------------------
(* Direct calls of _clip_bbx *)

\* the boxes of the fetch, a box that reaches north of the Web-Mercator
\* square, the square itself, and a box south of the docstring's
ClipBoxes ==
    FetchBoxes \cup {<<0, 8500, 1000, 8900>>, <<-18000, -8500, 18000, 8500>>,
                     <<-514, 0, 956, 4133>>}

\* the file of tile t of zoom z as a dataset, as FileDataset gives it
TileDataset(t, z) ==
    TestTile(t[1] * TilePx, -(t[2] * TilePx), 1 + t[1] + 2^z * t[2], "int16",
             [present |-> TRUE, value |-> <<"srtm">>])

\* the datasets of the tiles of box b at zoom z, in the order of the fetch
TilesOf(b, z) ==
    LET tiles == _get_tile_xy(b, z)
    IN  [i \in DOMAIN tiles |-> TileDataset(tiles[i], z)]

\* a mosaic of the tiles of one box, and a box to clip it to
ClipInit ==
    /\ stage = "c_start"
    /\ bbx \in ClipBoxes
    /\ zoom \in MIN_ZOOM..MaxFetchZoom
    /\ \E b \in ClipBoxes :
           /\ opened = TilesOf(b, zoom)
           /\ data = _merge_rasters(opened).mosaic
           /\ meta = _merge_rasters(opened).meta
    /\ raster_list = opened
    /\ pc = "idle"
    /\ use_cache = FALSE
    /\ tiles_df = <<>>
    /\ urls = <<>>
    /\ cached_files = <<>>
    /\ uncached_urls = <<>>
    /\ downloaded_tiles = <<>>
    /\ idx = 0
    /\ fs = <<>>
    /\ fs0 = <<>>
    /\ requested = <<>>
    /\ written = {}
    /\ response = "none"
    /\ result = <<>>
    /\ err = NoError
    /\ calls = 0
    /\ args = NoArgs
    /\ answer = ""
    /\ ops = <<>>
    /\ raster = NoRaster

\* mosaic, meta = _clip_bbx(mosaic, meta, bbx)
ClipBbx(up) ==
    /\ stage = "c_start"
    /\ stage' = "c_done"
    /\ LET out == _clip_bbx(data, meta, bbx, zoom, up)
       IN  data' = out.data /\ meta' = out.meta
    /\ ops' = Append(ops, "clip")
    /\ UNCHANGED <<pc, bbx, zoom, use_cache, tiles_df, urls, cached_files, uncached_urls,
                   downloaded_tiles, idx, fs, fs0, requested, written, response, result,
                   err, calls, args, answer, raster_list, opened, raster>>

ClipNext == \E up \in BOOLEAN : ClipBbx(up)

SpecClip == ClipInit /\ [][ClipNext]_vars

----------------------------------------------------------------------------
(* A Raster and its methods: one built by the caller or one returned by
   get_elev_raster, then calls of reproject, to_tif and to_numpy *)

MaxMethodCalls == 2

\* the arrays and metadata of the test suite: one band of TilePx x TilePx
\* cells, from_origin(0, 0, 1, 1) or from_origin(1, 0, 1, 1)
RasterArrays ==
    {[count |-> 1, h |-> TilePx, w |-> TilePx, dtype |-> "float32",
      px |-> TestTile(0, 0, fill, "float32", [present |-> FALSE, value |-> <<>>]).px] :
         fill \in 1..2}

RasterMetas ==
    {[driver |-> "GTiff", dtype |-> "float32", nodata |-> NODATA, width |-> TilePx,
      height |-> TilePx, count |-> 1, crs |-> c,
      transform |-> [a |-> 1, west |-> w, e |-> -1, north |-> 0],
      imagery_sources |-> <<>>] :
         c \in {"EPSG:4326", "EPSG:3857"}, w \in 0..1}

\* calls of get_elev_raster that return the raster as merged and clipped
RasterCalls ==
    {a \in GoodCalls : /\ a.locations.val = <<-514, 4133, 956, 5109>>
                       /\ a.zoom.val = MIN_ZOOM
                       /\ a.crs \in {"None", "EPSG:3857"}
                       /\ a.use_cache.val
                       /\ a.delete_cache.val
                       /\ ~a.ask_confirmation}

\* no cache folder, or the folder with the tile of the call
RasterCaches ==
    {c \in ElevCaches : c = <<>> \/ CachePath(MIN_ZOOM, <<0, 0>>) \in DOMAIN c}

RasterInit ==
    /\ stage = "e_idle"
    /\ fs \in RasterCaches
    /\ pc = "idle"
    /\ bbx = NoBox
    /\ zoom = 0
    /\ use_cache = FALSE
    /\ tiles_df = <<>>
    /\ urls = <<>>
    /\ cached_files = <<>>
    /\ uncached_urls = <<>>
    /\ downloaded_tiles = <<>>
    /\ idx = 0
    /\ fs0 = <<>>
    /\ requested = <<>>
    /\ written = {}
    /\ response = "none"
    /\ result = <<>>
    /\ err = NoError
    /\ calls = 0
    /\ args = NoArgs
    /\ answer = ""
    /\ ops = <<>>
    /\ raster_list = <<>>
    /\ opened = <<>>
    /\ data = NoArray
    /\ meta = NoMeta
    /\ raster = NoRaster

\* raster = Raster(data=data, meta=meta), as the test suite builds one
Construct(d, m) ==
    /\ stage = "e_idle"
    /\ stage' = "r_ready"
    /\ data' = d
    /\ meta' = m
    /\ raster' = Raster(d, m)
    /\ ops' = Append(ops, "raster")
    /\ UNCHANGED <<pc, bbx, zoom, use_cache, tiles_df, urls, cached_files, uncached_urls,
                   downloaded_tiles, idx, fs, fs0, requested, written, response, result,
                   err, calls, args, answer, raster_list, opened>>

MethodNames == {"Raster.reproject", "Raster.to_tif", "Raster.to_numpy", "array.write"}

\* how many calls the holder of the raster has made
MethodCalls == Cardinality({k \in DOMAIN ops : ops[k] \in MethodNames})

HasCalled(name) == \E k \in DOMAIN ops : ops[k] = name

\* the caller holds a raster and may call it
Ready ==
    /\ stage \in {"r_ready", "e_returned"}
    /\ raster # NoRaster
    /\ MethodCalls < MaxMethodCalls

\* the warps of a method call in this model: the shape kept or one larger
MethodWarps(a) ==
    {w \in Warps(a) : w.shape \in {<<a.h, a.w>>, <<a.h + 1, a.w + 1>>}}

\* raster.reproject(crs); an array handed out earlier stays the old object
\* when self.data is replaced
RasterReproject(crs, warp) ==
    /\ Ready
    /\ LET out == reproject(raster, crs, warp)
       IN  /\ IF out.warped THEN warp \in MethodWarps(raster.data) ELSE warp = NoWarp
           /\ raster' = out.raster
           /\ err' = IF out.raised = "none" THEN NoError
                     ELSE [type |-> out.raised, url |-> <<>>]
           /\ ops' = ops \o <<"Raster.reproject">>
                         \o (IF out.warped THEN <<"rio.reproject">> ELSE <<>>)
           /\ IF out.warped /\ HasCalled("Raster.to_numpy")
              THEN result' = [obj |-> "replaced array"]
              ELSE UNCHANGED result
    /\ UNCHANGED <<pc, bbx, zoom, use_cache, tiles_df, urls, cached_files, uncached_urls,
                   downloaded_tiles, idx, fs, fs0, requested, written, response,
                   calls, stage, args, answer, raster_list, opened, data, meta>>

TifPath == <<"out.tif">>

\* raster.to_tif(path, compress)
RasterToTif(compress) ==
    /\ Ready
    /\ LET out == to_tif(raster, fs, TifPath, compress)
       IN  /\ raster' = out.raster
           /\ fs' = out.files
           /\ err' = IF out.raised = "none" THEN NoError
                     ELSE [type |-> out.raised, url |-> <<>>]
           /\ ops' = ops \o <<"Raster.to_tif">> \o out.io
    /\ UNCHANGED <<pc, bbx, zoom, use_cache, tiles_df, urls, cached_files, uncached_urls,
                   downloaded_tiles, idx, fs0, requested, written, response, result,
                   calls, stage, args, answer, raster_list, opened, data, meta>>

\* arr = raster.to_numpy()
RasterToNumpy ==
    /\ Ready
    /\ result' = to_numpy(raster)
    /\ err' = NoError
    /\ ops' = Append(ops, "Raster.to_numpy")
    /\ UNCHANGED <<pc, bbx, zoom, use_cache, tiles_df, urls, cached_files, uncached_urls,
                   downloaded_tiles, idx, fs, fs0, requested, written, response,
                   calls, stage, args, answer, raster_list, opened, data, meta, raster>>

\* arr[r, c] = v by the caller, on the array that to_numpy returned: a write
\* to the object that is self.data is a write to the raster's data
WriteArray(rc, v) ==
    /\ Ready
    /\ HasCalled("Raster.to_numpy")
    /\ ops' = Append(ops, "array.write")
    /\ IF result = [obj |-> "self.data"]
       THEN /\ rc \in DOMAIN raster.data.px
            /\ raster' = [raster EXCEPT !.data.px[rc] = v]
       ELSE /\ rc = <<1, 1>>
            /\ UNCHANGED raster
    /\ UNCHANGED <<pc, bbx, zoom, use_cache, tiles_df, urls, cached_files, uncached_urls,
                   downloaded_tiles, idx, fs, fs0, requested, written, response, result,
                   err, calls, stage, args, answer, raster_list, opened, data, meta>>

\* every warp a method call of this model may be given
WarpSpace ==
    [shape : (1..(TilePx + MaxMethodCalls)) \X (1..(TilePx + MaxMethodCalls)), res : 1..2]

CompressSamples ==
    {"None", "lzw", "packbits", "deflate", "zstd", "lzma", "LZW", "invalid_compression", ""}

RasterNext ==
    \/ \E d \in RasterArrays, m \in RasterMetas : Construct(d, m)
    \/ \E a \in RasterCalls : ElevCall(a)
    \/ ElevFetch
    \/ \E o \in {"ok", "transport_error", "bad_type"} : Request(o)
    \/ \E o \in {"ok", "stream_error"} : StreamBody(o)
    \/ \E o \in {"ok", "tag_error"} : TagTile(o)
    \/ ElevPropagate
    \/ MergeStep
    \/ \E up \in BOOLEAN : ClipStep(up)
    \/ DeleteStep
    \/ WrapStep
    \/ ReprojectStep(NoWarp)
    \/ \E crs \in {"EPSG:3857", "EPSG:4326", "bogus"},
          warp \in WarpSpace :
           RasterReproject(crs, warp)
    \/ \E compress \in CompressSamples : RasterToTif(compress)
    \/ RasterToNumpy
    \/ \E rc \in (1..(TilePx + MaxMethodCalls)) \X (1..(TilePx + MaxMethodCalls)) :
           WriteArray(rc, 0)

SpecRaster == RasterInit /\ [][RasterNext]_vars

----------------------------------------------------------------------------
(* Properties of the tile indexer, checked under SpecTile *)

\* every longitude in [-180, 180] and every latitude in [-90, 90]
InRange(b) ==
    /\ \A k \in {1, 3} : -MAX_LONGITUDE <= b[k] /\ b[k] <= MAX_LONGITUDE
    /\ \A k \in {2, 4} : -MAX_LATITUDE <= b[k] /\ b[k] <= MAX_LATITUDE

TileSet == {tiles_df[i] : i \in DOMAIN tiles_df}

\* C1: for every zoom in 0..14 and every bounding box within the valid
\* longitudes and latitudes (the extremes included), every tile returned by
\* _get_tile_xy has 0 <= tile_x <= 2^zoom - 1 and 0 <= tile_y <= 2^zoom - 1.
C1_TilesWithinGrid ==
    (pc = "tile_done" /\ InRange(bbx)) =>
        \A i \in DOMAIN tiles_df :
            /\ 0 <= tiles_df[i][1] /\ tiles_df[i][1] <= 2^zoom - 1
            /\ 0 <= tiles_df[i][2] /\ tiles_df[i][2] <= 2^zoom - 1

\* the whole world at zoom 2: all 16 tiles, the last of them (3, 3)
C1_Witness ==
    /\ pc = "tile_done"
    /\ bbx = <<-18000, -9000, 18000, 9000>>
    /\ zoom = 2
    /\ Len(tiles_df) = 16
    /\ tiles_df[16] = <<3, 3>>

\* C2: for every in-range bounding box, _get_tile_xy returns exactly the one
\* tile (0, 0) at zoom 0, and at zoom 1 a non-empty subset of the four tiles
\* (0,0), (0,1), (1,0), (1,1).
C2_ZoomZeroAndOne ==
    (pc = "tile_done" /\ InRange(bbx)) =>
        /\ zoom = 0 => tiles_df = << <<0, 0>> >>
        /\ zoom = 1 => (tiles_df # <<>> /\ TileSet \subseteq ((0..1) \X (0..1)))

\* the poles and the antimeridian at zoom 1: all four tiles
C2_Witness ==
    /\ pc = "tile_done"
    /\ bbx = <<18000, 9000, -18000, -9000>>
    /\ zoom = 1
    /\ tiles_df = << <<0, 0>>, <<0, 1>>, <<1, 0>>, <<1, 1>> >>

\* C3: for every in-range bounding box, its corners in any order, and every
\* zoom, the tiles returned by _get_tile_xy are exactly the Cartesian product
\* of the inclusive x range and the inclusive y range spanned by the tile
\* indices of the two corners: never empty, without gaps, no tile twice.
C3_FullProduct ==
    (pc = "tile_done" /\ InRange(bbx)) =>
        LET p == _lonlat_to_tilenum(bbx[1], bbx[2], zoom)
            q == _lonlat_to_tilenum(bbx[3], bbx[4], zoom)
            xs == Min(p[1], q[1])..Max(p[1], q[1])
            ys == Min(p[2], q[2])..Max(p[2], q[2])
        IN  /\ tiles_df # <<>>
            /\ TileSet = xs \X ys
            /\ Len(tiles_df) = Cardinality(xs) * Cardinality(ys)

\* the docstring's box with its corners exchanged, at zoom 6: the nine tiles
\* of the docstring, in its order
C3_Witness ==
    /\ pc = "tile_done"
    /\ bbx = <<956, 5109, -514, 4133>>
    /\ zoom = 6
    /\ tiles_df = << <<31, 21>>, <<31, 22>>, <<31, 23>>, <<32, 21>>, <<32, 22>>,
                  <<32, 23>>, <<33, 21>>, <<33, 22>>, <<33, 23>> >>

\* C4: for any bounding box passed to _get_tile_xy, boxes across the
\* antimeridian that give a longitude above 180 included, min_x <= max_x and
\* min_y <= max_y hold after the normalization and the tile range is not empty.
C4_NormalizedOrdered ==
    pc = "tile_done" =>
        LET nb == NormalizeBbx(bbx)
        IN  /\ nb[1] <= nb[3]
            /\ nb[2] <= nb[4]
            /\ tiles_df # <<>>

\* floor(frac * 2^z)
FloorMul(f, z) ==
    LET m == 2^(FracBits - z)
        q == f.mag \div m
    IN  IF ~f.neg THEN q
        ELSE IF f.exact /\ f.mag % m = 0 THEN -q
        ELSE -q - 1

\* C5: for every tile fraction, negative ones and ones >= 1 included, and every
\* zoom, _lonlat_to_tilenum returns floor(frac * 2^zoom) clamped to
\* [0, 2^zoom - 1]: truncating and then clamping gives what flooring and then
\* clamping gives.  Longitude 180 at zoom 2 gives x = 3, any point at zoom 0
\* gives (0, 0), and the four examples of the docstring hold.
C5_TruncIsFloorClamped ==
    pc = "point_done" =>
        LET lo(v) == IF v < 0 THEN 0 ELSE v
            hi(v) == IF v > 2^zoom - 1 THEN 2^zoom - 1 ELSE v
            xfloor == FloorMul(XFrac(bbx[1]), zoom)
            yfloor == FloorMul(YFrac(bbx[2]), zoom)
        IN  /\ tiles_df[1] = <<lo(hi(xfloor)), lo(hi(yfloor))>>
            /\ (bbx[1] = 18000 /\ zoom = 2) => tiles_df[1][1] = 3
            /\ zoom = 0 => tiles_df[1] = <<0, 0>>
            /\ (bbx[1] = 0 /\ bbx[2] = 0 /\ zoom = 2) => tiles_df[1] = <<2, 2>>
            /\ (bbx[1] = -18000 /\ bbx[2] = 0 /\ zoom = 2) => tiles_df[1] = <<0, 2>>
            /\ (bbx[1] = 18000 /\ bbx[2] = 8500 /\ zoom = 4) => tiles_df[1] = <<15, 0>>
            /\ (bbx[1] = 0 /\ bbx[2] = -8500 /\ zoom = 3) => tiles_df[1] = <<4, 7>>

\* a point west of -180 at the north pole: both fractions are negative, the
\* truncation and the floor differ, and the tile is (0, 0)
C5_Witness ==
    /\ pc = "point_done"
    /\ bbx[1] = -18001
    /\ bbx[2] = 9000
    /\ zoom = 3
    /\ IntTrunc(XFrac(bbx[1]), zoom) # FloorMul(XFrac(bbx[1]), zoom)
    /\ IntTrunc(YFrac(bbx[2]), zoom) # FloorMul(YFrac(bbx[2]), zoom)
    /\ tiles_df = << <<0, 0>> >>

----------------------------------------------------------------------------
(* Properties of _get_aws_terrain, checked under Spec *)

\* the cache path of the i-th tile of the call
TilePath(i) == _construct_tile_filename(TileUrl(zoom, tiles_df[i]))

\* the i-th tile was a cache hit: use_cache, and its file existed at the start
WasHit(i) == use_cache /\ TilePath(i) \in DOMAIN fs0

\* how often the call has requested the i-th tile from the network
Requests(i) == Cardinality({k \in DOMAIN requested : requested[k] = TileUrl(zoom, tiles_df[i])})

\* C6: whenever _get_aws_terrain returns normally, whatever mix of cached and
\* uncached tiles and whatever use_cache, the returned list holds the cache
\* path of every tile exactly once (it is as long as the tile set), and every
\* returned path exists on disk and ends in .tif.
C6_OnePathPerTile ==
    pc = "returned" =>
        /\ Len(result) = Len(tiles_df)
        /\ \A i \in DOMAIN tiles_df :
               Cardinality({j \in DOMAIN result : result[j] = TilePath(i)}) = 1
        /\ \A j \in DOMAIN result :
               /\ result[j] \in DOMAIN fs
               /\ result[j][Len(result[j])] = ".tif"

\* use_cache is False, one of two tiles had a file from an earlier call, and
\* both were downloaded
C6_Witness ==
    /\ pc = "returned"
    /\ ~use_cache
    /\ Len(result) = 2
    /\ \E i \in DOMAIN tiles_df : TilePath(i) \in DOMAIN fs0
    /\ \E i \in DOMAIN tiles_df : TilePath(i) \notin DOMAIN fs0
    /\ Len(requested) = 2

\* C7 as claimed: the returned list is in the order of the tile set, the i-th
\* path being that of the i-th tile, whatever the mix of cache hits and
\* downloads.
C7_TileOrder ==
    pc = "returned" =>
        result = [i \in DOMAIN tiles_df |-> TilePath(i)]

\* C7 as amended: the returned list is the paths of the cache hits in the
\* order of the tile set, followed by the paths of the downloaded tiles in the
\* order of the tile set.
C7_HitsThenDownloads ==
    pc = "returned" =>
        LET paths == [i \in DOMAIN tiles_df |-> TilePath(i)]
            hit(f) == use_cache /\ f \in DOMAIN fs0
        IN  result = SelectSeq(paths, hit) \o SelectSeq(paths, LAMBDA f : ~hit(f))

\* the first tile was downloaded and the second was a cache hit: the list
\* starts with the second tile's path
C7_Witness ==
    /\ pc = "returned"
    /\ Len(tiles_df) = 2
    /\ ~WasHit(1)
    /\ WasHit(2)
    /\ result = <<TilePath(2), TilePath(1)>>

\* C8: within one call of _get_aws_terrain each tile is requested from the
\* network at most once; a tile whose cache file exists while use_cache is True
\* is not requested at all; when the call returns, every other tile has been
\* requested exactly once; when the call fails, the tiles up to the failing one
\* have been requested once and the later ones not at all.  Nothing but the
\* tiles of the call is requested.
C8_AtMostOneFetch ==
    /\ \A i \in DOMAIN tiles_df :
           /\ Requests(i) <= 1
           /\ WasHit(i) => Requests(i) = 0
           /\ (pc = "returned" /\ ~WasHit(i)) => Requests(i) = 1
           /\ (pc = "raised" /\ ~WasHit(i)) =>
                  Requests(i) = IF \E k \in 1..idx : uncached_urls[k] = TileUrl(zoom, tiles_df[i])
                                THEN 1 ELSE 0
    /\ \A k \in DOMAIN requested : \E i \in DOMAIN tiles_df : requested[k] = TileUrl(zoom, tiles_df[i])

\* one tile a cache hit and never requested, the other requested once
C8_Witness ==
    /\ pc = "returned"
    /\ use_cache
    /\ \E i \in DOMAIN tiles_df : WasHit(i) /\ Requests(i) = 0
    /\ \E i \in DOMAIN tiles_df : ~WasHit(i) /\ Requests(i) = 1

\* every tile _get_aws_terrain can be called on in this model
FetchUniverse ==
    UNION {{<<z, x, y>> : x \in 0..(2^z - 1), y \in 0..(2^z - 1)} : z \in MIN_ZOOM..MaxFetchZoom}

\* C9: the URL of a tile is BASE_URL/{zoom}/{tile_x}/{tile_y}.tif and its cache
\* path is cache_folder/geotiff_{zoom}_{tile_x}_{tile_y}.tif; two distinct
\* (zoom, tile_x, tile_y) never have the same cache path.
C9_UrlAndPath ==
    \A i \in DOMAIN urls :
        LET z == Digits(zoom)
            x == Digits(tiles_df[i][1])
            y == Digits(tiles_df[i][2])
        IN  /\ Len(urls) = Len(tiles_df)
            /\ SubSeq(urls[i], 1, Len(BASE_URL)) = BASE_URL
            /\ SubSeq(urls[i], Len(BASE_URL) + 1, Len(urls[i])) = <<z, x, y \o <<".tif">> >>
            /\ _construct_tile_filename(urls[i])
                 = <<cache_folder, "/", "geotiff", "_">> \o z \o <<"_">> \o x \o <<"_">> \o y
                   \o <<".tif">>
            /\ \A t \in FetchUniverse :
                   t # <<zoom, tiles_df[i][1], tiles_df[i][2]>> =>
                       _construct_tile_filename(TileUrl(t[1], <<t[2], t[3]>>))
                         # _construct_tile_filename(urls[i])

\* tiles (0, 0) and (1, 0) of zoom 1, the second one's file in the cache
C9_Witness ==
    /\ pc = "returned"
    /\ zoom = 1
    /\ tiles_df = << <<0, 0>>, <<1, 0>> >>
    /\ <<cache_folder, "/", "geotiff", "_", "1", "_", "1", "_", "0", ".tif">> \in DOMAIN fs
    /\ <<cache_folder, "/", "geotiff", "_", "1", "_", "1", "_", "0", ".tif">> \in
           {result[j] : j \in DOMAIN result}

\* C10: when a tile's response has a successful status and a Content-Type
\* without image/tif, _get_aws_terrain fails with a ValueError naming the URL,
\* and no file is created or changed at that tile's cache path.
C10_BadTypeLeavesCache ==
    response = "bad_type" =>
        LET url == uncached_urls[idx]
            destination == _construct_tile_filename(url)
        IN  /\ pc = "raised"
            /\ err = [type |-> "ValueError", url |-> url]
            /\ requested[Len(requested)] = url
            /\ destination \notin written
            /\ (destination \in DOMAIN fs) = (destination \in DOMAIN fs0)
            /\ destination \in DOMAIN fs0 => fs[destination] = fs0[destination]

\* the second of two downloads has the wrong type; use_cache is False and the
\* tile has a complete file from an earlier call, which stays as it was
C10_Witness ==
    /\ response = "bad_type"
    /\ pc = "raised"
    /\ ~use_cache
    /\ idx = 2
    /\ _construct_tile_filename(uncached_urls[idx]) \in DOMAIN fs0
    /\ fs[_construct_tile_filename(uncached_urls[idx])] = "complete"
    /\ written = {_construct_tile_filename(uncached_urls[1])}

\* C11: on a transport-level failure of a tile's download (a timeout, a
\* connection error, a status that is not 2xx, or an error while the body is
\* streamed), _get_aws_terrain fails with a RuntimeError naming the URL, and
\* no partly written file is left at that tile's cache path.
C11_TransportFailureClean ==
    response \in {"transport_error", "stream_error"} =>
        LET url == uncached_urls[idx]
            destination == _construct_tile_filename(url)
        IN  /\ pc = "raised"
            /\ err = [type |-> "RuntimeError", url |-> url]
            /\ ~(destination \in DOMAIN fs /\ fs[destination] = "partial")

\* C28: after an invocation that failed while a tile was downloaded (the
\* stream broke, or tagging the written file failed), a later invocation with
\* use_cache=True does not take the file left at the tile's cache path for a
\* cache hit: every path taken as a cache hit is a completely downloaded tile.
C28_HitsAreComplete ==
    (pc # "idle" /\ use_cache) =>
        \A i \in DOMAIN tiles_df : WasHit(i) => fs0[TilePath(i)] = "complete"

\* C26: a tile file is visible at its cache path only once it is written
\* completely, so a run of _get_aws_terrain with use_cache=True that starts
\* while another run is writing a tile to the same cache folder does not take
\* the file being written for a cache hit.
C26_NoHitWhileWritten ==
    [][\A b \in FetchBoxes, z \in MIN_ZOOM..MaxFetchZoom :
           (Invoke(b, z, TRUE) /\ stage = "o_stream") =>
               \A i \in DOMAIN cached_files' : cached_files'[i] # OtherDestination]_vars

----------------------------------------------------------------------------
(* Properties of _merge_rasters, checked under SpecMerge *)

\* C16: _merge_rasters called with an empty list of file paths fails with the
\* dedicated NoTilesToMerge error, a failure that says there is nothing to
\* merge, and opens no raster file.
C16_EmptyListError ==
    (pc \in {"merge_done", "merge_raised"} /\ raster_list = <<>>) =>
        /\ pc = "merge_raised"
        /\ err.type = "NoTilesToMerge"
        /\ opened = <<>>

\* the second file lies directly east of the first one
EastOf(a, b) == b.west = a.west + a.width /\ b.north = a.north /\ b.height = a.height

\* C17: merging two horizontally adjacent, non-overlapping single-band tiles
\* of TilePx x TilePx cells gives a mosaic of shape (1, TilePx, 2 * TilePx)
\* whose left half holds the first tile's values and whose right half holds
\* the second tile's, and the metadata declare the CRS EPSG:3857.
C17_SideBySide ==
    (/\ pc = "merge_done"
     /\ Len(raster_list) = 2
     /\ EastOf(raster_list[1], raster_list[2])) =>
        /\ <<data.count, data.h, data.w>> = <<1, TilePx, 2 * TilePx>>
        /\ \A r \in 1..TilePx, c \in 1..TilePx :
               /\ data.px[<<r, c>>] = raster_list[1].px[<<r, c>>]
               /\ data.px[<<r, c + TilePx>>] = raster_list[2].px[<<r, c>>]
        /\ meta.crs = "EPSG:3857"

\* the two rasters of test_merge_rasters: values of the first at column 1, of
\* the second at column TilePx + 1
C17_Witness ==
    /\ pc = "merge_done"
    /\ raster_list = <<TestTile(10, 10, 1, "float32", [present |-> FALSE, value |-> <<>>]),
                       TestTile(10 + TilePx, 10, 2, "float32",
                                [present |-> FALSE, value |-> <<>>])>>
    /\ <<data.count, data.h, data.w>> = <<1, TilePx, 2 * TilePx>>
    /\ data.px[<<1, 1>>] = 111
    /\ data.px[<<1, TilePx + 1>>] = 211

\* no cell lies in two of the files
NonOverlapping(rl) ==
    \A i \in DOMAIN rl, j \in DOMAIN rl :
        i # j => \/ rl[i].west + rl[i].width <= rl[j].west
                 \/ rl[j].west + rl[j].width <= rl[i].west
                 \/ rl[i].north - rl[i].height >= rl[j].north
                 \/ rl[j].north - rl[j].height >= rl[i].north

\* the orders of a list of n files
Orders(n) == {p \in [1..n -> 1..n] : \A i \in 1..n, j \in 1..n : p[i] = p[j] => i = j}

Reordered(rl, p) == [i \in DOMAIN rl |-> rl[p[i]]]

\* C18 as stated: for non-overlapping tiles, every order of the same files
\* gives the same mosaic array and the same metadata, entry by entry, those
\* copied from the first raster (dtype, count) included.
C18_OrderInvariant ==
    (pc = "merge_done" /\ NonOverlapping(raster_list)) =>
        \A p \in Orders(Len(raster_list)) :
            LET other == _merge_rasters(Reordered(raster_list, p))
            IN  other.mosaic = data /\ other.meta = meta

\* C18, amended: for non-overlapping tiles that share dtype and band count,
\* every order of the same files gives the same mosaic array and the same
\* metadata, the imagery_sources tag included.
C18_OrderInvariantSameProfile ==
    (/\ pc = "merge_done"
     /\ NonOverlapping(raster_list)
     /\ \A i \in DOMAIN raster_list :
            /\ raster_list[i].dtype = raster_list[1].dtype
            /\ raster_list[i].count = raster_list[1].count) =>
        \A p \in Orders(Len(raster_list)) :
            LET other == _merge_rasters(Reordered(raster_list, p))
            IN  other.mosaic = data /\ other.meta = meta

\* the right tile first, two names on it, one on the left tile: the mosaic
\* starts with the left tile all the same and the names are in order
C18_Witness ==
    /\ pc = "merge_done"
    /\ Len(raster_list) = 2
    /\ EastOf(raster_list[2], raster_list[1])
    /\ raster_list[1].dtype = raster_list[2].dtype
    /\ TagOf(raster_list[1]) = <<"etopo1", ", ", "srtm">>
    /\ TagOf(raster_list[2]) = <<"srtm">>
    /\ data.px[<<1, 1>>] = raster_list[2].px[<<1, 1>>]
    /\ meta.imagery_sources = <<"etopo1", ", ", "srtm">>

\* the names tagged on the files
NamesTagged(rl) ==
    UNION {{TagOf(rl[i])[k] : k \in DOMAIN TagOf(rl[i])} : i \in DOMAIN rl} \ {", "}

\* C19: the imagery_sources of the merged metadata is the sorted,
\* duplicate-free, comma-joined union of the source names tagged on the input
\* tiles, also when a tile has no imagery_sources tag or an empty one: no
\* empty entry, no leading separator.
C19_SourcesUnion ==
    pc = "merge_done" =>
        /\ meta.imagery_sources =
               Join(Sorted({<<nm>> : nm \in NamesTagged(raster_list)}))
        /\ (meta.imagery_sources # <<>> => meta.imagery_sources[1] # ", ")

----------------------------------------------------------------------------
(* Properties of get_elev_raster, checked under SpecElev *)

\* the download of a tile has failed
FetchFailed == response \in {"transport_error", "bad_type", "stream_error", "tag_error"}

Done(op) == \E k \in DOMAIN ops : ops[k] = op

\* C12: fetching is fail-stop. Once the fetch of one tile has failed, no
\* fetch is issued for a later tile of the invocation (the failed request is
\* the last one, and every tile tried was requested once: no retry), no
\* merge, clip or reprojection is performed, no list of tiles and no raster
\* is returned in place of the failure, and the exception that
\* _get_aws_terrain raised is the one that leaves get_elev_raster.
C12_FailStop ==
    (stage # "none" /\ FetchFailed) =>
        /\ pc = "raised"
        /\ stage \in {"fetch", "e_raised"}
        /\ Len(requested) = idx
        /\ requested[idx] = uncached_urls[idx]
        /\ \A k \in DOMAIN requested : requested[k] = uncached_urls[k]
        /\ ~Done("merge") /\ ~Done("clip") /\ ~Done("raster") /\ ~Done("reproject")
        /\ result = <<>>
        /\ raster = NoRaster
        /\ err.type \in {"RuntimeError", "ValueError", "RasterioIOError"}
        /\ err.url = uncached_urls[idx]

\* the first of two tiles fails on the network; the exception has left
\* get_elev_raster and the second tile was never requested
C12_Witness ==
    /\ stage = "e_raised"
    /\ response = "transport_error"
    /\ Len(uncached_urls) = 2
    /\ idx = 1
    /\ requested = <<uncached_urls[1]>>
    /\ err = [type |-> "RuntimeError", url |-> uncached_urls[1]]

\* an input the interface does not allow: locations that are no 4-tuple of
\* numbers or leave the ranges, a zoom that is no integer of 0..14, a clip
\* other than bbox and tile, a cache_folder that is neither a string nor
\* left out, a flag that is no boolean
InvalidInput(a) ==
    \/ a.locations.type # "tuple"
    \/ Len(a.locations.val) # 4
    \/ \E k \in DOMAIN a.locations.elems : a.locations.elems[k] \notin {"int", "float"}
    \/ \E k \in {1, 3} : a.locations.val[k] < -18000 \/ a.locations.val[k] > 18000
    \/ \E k \in {2, 4} : a.locations.val[k] < -9000 \/ a.locations.val[k] > 9000
    \/ a.zoom.type # "int"
    \/ a.zoom.val < 0
    \/ a.zoom.val > 14
    \/ a.clip \notin {"bbox", "tile"}
    \/ a.cache_folder.type \notin {"str", "none"}
    \/ a.use_cache.type # "bool"
    \/ a.delete_cache.type # "bool"
    \/ a.verbose.type # "bool"

\* C13: get_elev_raster rejects every invalid input by raising before any
\* I/O: the file system is as it was (no cache folder is made), no prompt is
\* shown and no tile is fetched.
C13_RejectBeforeIO ==
    (stage \notin {"none", "e_idle"} /\ InvalidInput(args)) =>
        /\ stage = "e_raised"
        /\ err.type \in {"AssertionError", "ValueError", "TypeError"}
        /\ fs = fs0
        /\ ops = <<>>
        /\ answer = ""
        /\ calls = 0
        /\ requested = <<>>
        /\ written = {}

\* zoom 15 with a missing cache folder: AssertionError, and no folder
C13_Witness ==
    /\ stage = "e_raised"
    /\ args.zoom = [type |-> "int", val |-> 15]
    /\ err.type = "AssertionError"
    /\ fs = <<>>
    /\ ops = <<>>

\* the prompt was shown and answered
Answered == Done("prompt") /\ stage # "prompt"

\* the call returned None and did nothing but clean up
AbortedCleanly ==
    /\ stage = "e_returned"
    /\ raster = NoRaster
    /\ err = NoError
    /\ calls = 0
    /\ requested = <<>>
    /\ ~Done("merge")
    /\ args.delete_cache.val => fs = <<>>
    /\ ~args.delete_cache.val => fs = Mkdir(fs0, Folder)

\* C14 as stated: when confirmation is enabled, the estimate exceeds
\* settings.min_size_for_confirmation and the user answers anything other
\* than 'y', get_elev_raster returns None without raising, fetches no tile,
\* merges nothing, and the cache folder is removed when delete_cache is True.
C14_AbortUnlessLowerY ==
    (stage # "none" /\ Answered /\ answer # "y") => AbortedCleanly

\* C14, amended: the same for every answer other than 'y' and 'Y' (the
\* answer is compared after lower()).
C14_AbortUnlessYes ==
    (stage # "none" /\ Answered /\ answer \notin {"y", "Y"}) => AbortedCleanly

\* the answer n with delete_cache: None is returned and the folder, which
\* held a tile of an earlier call, is gone
C14_Witness ==
    /\ stage = "e_returned"
    /\ answer = "n"
    /\ args.ask_confirmation
    /\ args.delete_cache.val
    /\ CachePath(0, <<0, 0>>) \in DOMAIN fs0
    /\ fs = <<>>
    /\ raster = NoRaster
    /\ ops = <<"prompt", "rmtree">>

\* get_elev_raster has returned a Raster
Success == stage = "e_returned" /\ raster # NoRaster

\* C15: in a successful run with delete_cache=True the cache folder is
\* removed exactly once, after the merge and after the clip when one is
\* requested; with delete_cache=False the cache folder and the tile files
\* returned by the fetch still exist when the call returns.
C15_CacheRemovedOnceAfterReads ==
    (stage # "none" /\ Success) =>
        IF args.delete_cache.val
        THEN /\ Cardinality({k \in DOMAIN ops : ops[k] = "rmtree"}) = 1
             /\ Done("merge")
             /\ args.clip = "bbox" => Done("clip")
             /\ \A k \in DOMAIN ops, j \in DOMAIN ops :
                    (ops[k] = "rmtree" /\ ops[j] \in {"merge", "clip"}) => j < k
             /\ ~Exists(fs, Folder)
             /\ \A i \in DOMAIN result : ~Exists(fs, result[i])
        ELSE /\ ~Done("rmtree")
             /\ Exists(fs, Folder)
             /\ \A i \in DOMAIN result : Exists(fs, result[i])

\* the folder is made, two tiles are merged and clipped, the folder is removed
C15_Witness ==
    /\ Success
    /\ args.delete_cache.val
    /\ Len(result) = 2
    /\ ops = <<"mkdir", "merge", "clip", "rmtree", "raster">>
    /\ fs = <<>>

\* C20: after the merge, after the clip, after the reprojection and on the
\* Raster returned, the height and width of the metadata are the row and
\* column counts of the data array.
C20_MetaMatchesShape ==
    /\ stage \in {"clip", "delete", "wrap"} =>
           (meta.height = data.h /\ meta.width = data.w)
    /\ (stage \in {"reproject", "e_returned"} /\ raster # NoRaster) =>
           /\ raster.meta.height = raster.data.h
           /\ raster.meta.width = raster.data.w
           /\ raster.height = raster.data.h
           /\ raster.width = raster.data.w

\* two tiles merged, clipped to fewer columns, reprojected to another shape
C20_Witness ==
    /\ Success
    /\ Len(raster_list) = 2
    /\ Done("clip")
    /\ Done("reproject")
    /\ 0 < data.w /\ data.w < 2 * TilePx
    /\ raster.data.h # data.h
    /\ raster.meta.height = raster.data.h

\* C29: when get_elev_raster called with delete_cache=True fails after its
\* input checks, nothing the failed call created is left: not the cache
\* folder, if the call made it, and none of the tile files it wrote.
C29_CleanupOnFailure ==
    (stage = "e_raised" /\ Validate(args) = "none" /\ args.delete_cache.val) =>
        /\ Done("mkdir") => ~Exists(fs, Folder)
        /\ \A path \in written : ~Exists(fs, path)

\* a file or folder that was there before the call and that the call has not
\* written
PreExisting(path) ==
    /\ path \in DOMAIN fs0
    /\ ~(path = Folder /\ Done("mkdir"))
    /\ path \notin written

\* C30 as stated: the cleanup of a call with delete_cache=True, on success or
\* on abort, removes only the tile files of the call: what was in the cache
\* folder before, and the folder when it was there before, are as they were.
C30_OnlyOwnFilesRemoved ==
    (stage = "e_returned" /\ args.delete_cache.val) =>
        \A path \in DOMAIN fs0 :
            PreExisting(path) => (Exists(fs, path) /\ fs[path] = fs0[path])

\* C30: the cleanup of a call with delete_cache=True, on success or on abort,
\* removes the whole cache folder: nothing is left at or under its path,
\* whether the call wrote it or it was there before.
C30_WholeFolderRemoved ==
    (stage = "e_returned" /\ args.delete_cache.val) =>
        \A path \in DOMAIN fs : path[1] # cache_folder

\* a successful call has removed a tile file that was in the folder before
\* and that it had not written
C30_Witness ==
    /\ Success
    /\ args.delete_cache.val
    /\ PreExisting(Folder)
    /\ \E path \in DOMAIN fs0 :
           PreExisting(path) /\ fs0[path] = "complete" /\ ~Exists(fs, path)

----------------------------------------------------------------------------
(* Properties of _clip_bbx, checked under SpecClip *)

\* the dataset that was clipped
Source == _merge_rasters(opened)

\* the cell of the source that the transform of the clipped metadata gives
\* for cell rc of the clipped data
SourceCell(rc) ==
    <<rc[1] + (Source.meta.transform.north - meta.transform.north),
      rc[2] + (meta.transform.west - Source.meta.transform.west)>>

\* C21: after _clip_bbx, also for a box that is partly or wholly outside the
\* dataset, the data read lie inside the dataset, the metadata's height and
\* width are the shape of the data, and the metadata's transform is anchored
\* at the top-left cell of the data: under it every cell of the data is the
\* cell of the dataset at the same place.
C21_ClipAnchored ==
    stage = "c_done" =>
        /\ 0 <= data.h /\ data.h <= Source.meta.height
        /\ 0 <= data.w /\ data.w <= Source.meta.width
        /\ meta.height = data.h
        /\ meta.width = data.w
        /\ \A rc \in DOMAIN data.px :
               /\ SourceCell(rc) \in DOMAIN Source.mosaic.px
               /\ data.px[rc] = Source.mosaic.px[SourceCell(rc)]

----------------------------------------------------------------------------
(* Properties of the Raster class, checked under SpecRaster *)

\* C22: reprojecting a Raster to the crs it has is a no-op: a call of
\* Raster.reproject with the raster's current crs resamples nothing, raises
\* nothing and leaves data, meta and every derived field as they were; and
\* the last step of get_elev_raster reprojects nothing and returns the raster
\* as built when crs is None or 'EPSG:3857'.
C22_SameCrsNoOp ==
    [][/\ (\E warp \in WarpSpace : RasterReproject(raster.crs, warp)) =>
              /\ raster' = raster
              /\ ops' = Append(ops, "Raster.reproject")
              /\ err' = NoError
       /\ (ReprojectStep(NoWarp) /\ args.crs \in {"None", "EPSG:3857"}) =>
              /\ raster' = raster
              /\ ops' = ops
              /\ stage' = "e_returned"]_vars

\* get_elev_raster with crs None has returned the raster without a
\* reprojection, and a call of reproject with its crs has then left it as built
C22_Witness ==
    /\ stage = "e_returned"
    /\ args.crs = "None"
    /\ ~HasCalled("reproject")
    /\ ops[Len(ops)] = "Raster.reproject"
    /\ err = NoError
    /\ raster = Raster(data, meta)

\* C23: once a Raster is built, and after any calls of reproject and to_tif,
\* its crs, transform, height and width are the entries of its meta, its
\* bounds are (transform[2], transform[5] + height * transform[4],
\* transform[2] + width * transform[0], transform[5]), and its resolution is
\* (|transform[0]|, |transform[4]|).
C23_DerivedFieldsFresh ==
    raster # NoRaster =>
        /\ raster.crs = raster.meta.crs
        /\ raster.transform = raster.meta.transform
        /\ raster.height = raster.meta.height
        /\ raster.width = raster.meta.width
        /\ raster.bounds = <<raster.transform.west,
                             raster.transform.north + raster.height * raster.transform.e,
                             raster.transform.west + raster.width * raster.transform.a,
                             raster.transform.north>>
        /\ raster.resolution.x = Abs(raster.transform.a)
        /\ raster.resolution.y = Abs(raster.transform.e)

\* a raster that a reprojection gave another grid and that was then written
C23_Witness ==
    /\ raster # NoRaster
    /\ HasCalled("rio.reproject")
    /\ ops[Len(ops)] = "dst.write"
    /\ raster.bounds # Raster(data, meta).bounds
    /\ raster.resolution.x # Raster(data, meta).resolution.x

\* C24: Raster.to_tif accepts exactly the compression values None, 'lzw',
\* 'packbits', 'deflate', 'zstd' and 'lzma': with one of them the file is
\* written; with any other value the call raises ValueError before any I/O,
\* no file is opened or created and the raster, its meta included, is as it
\* was.
C24_CompressChecked ==
    [][\A compress \in CompressSamples :
           RasterToTif(compress) =>
               IF compress \in {"None", "lzw", "packbits", "deflate", "zstd", "lzma"}
               THEN /\ err' = NoError
                    /\ TifPath \in DOMAIN fs'
                    /\ raster'.meta.compress = compress
               ELSE /\ err'.type = "ValueError"
                    /\ fs' = fs
                    /\ raster' = raster
                    /\ ops' = Append(ops, "Raster.to_tif")]_vars

\* to_tif has just raised ValueError and there is no file
C24_Witness ==
    /\ raster # NoRaster
    /\ ops[Len(ops)] = "Raster.to_tif"
    /\ err.type = "ValueError"
    /\ TifPath \notin DOMAIN fs
    /\ raster.meta = meta

\* C25: a Raster owns its buffer alone: what to_numpy hands out is a copy or
\* a read-only view, so a write of the caller to the array it was handed
\* changes nothing of the raster.
C25_BufferOwned ==
    [][(\E rc \in DOMAIN raster.data.px : WriteArray(rc, 0)) => raster' = raster]_vars

====
